---- MODULE Spec2Model ----
(***************************************************************************)
(* Model of the fouling engine of Fouling_analysis.py: the performance-    *)
(* ratio calculator, the POA-binned clean-baseline estimator, the fouling  *)
(* scorer (index, classification, energy loss), the cleaning-event         *)
(* detector and the run_fouling_analysis pipeline that chains them.        *)
(*                                                                         *)
(* A pandas DataFrame is a record [cols, rows]: the set of its column      *)
(* names and the sequence of its rows, each row a function from column     *)
(* name to cell.  A float cell is a record [k, n, d]: k = "num" is the     *)
(* rational n/d in lowest terms, k = "nan" is NaN, k = "inf" is +inf       *)
(* (n = 1) or -inf (n = -1).  A timestamp cell is an integer number of     *)
(* days.                                                                   *)
(***************************************************************************)
EXTENDS Integers, Sequences, FiniteSets, TLC

VARIABLES
    pc,        \* position of the call being executed
    cfg,       \* the FoulingConfig and keyword arguments of the call
    df,        \* the caller's full table
    clean_df,  \* the caller's clean-reference table (None or a table)
    l_df,      \* the running call's local table df
    l_clean,   \* the running call's local table clean_df
    heap,      \* the DataFrame objects alive, by reference (SpecBaseline)
    out,       \* what the call has returned / computed so far
    db         \* the SQLite database of PlantStore: its tables as sets of rows

vars == <<pc, cfg, df, clean_df, l_df, l_clean, heap, out, db>>

(***************************************************************************)
(* Float arithmetic                                                        *)
(***************************************************************************)
Abs(x) == IF x < 0 THEN -x ELSE x

RECURSIVE GCD(_, _)
GCD(a, b) == IF b = 0 THEN a ELSE GCD(b, a % b)

NaN == [k |-> "nan", n |-> 0, d |-> 1]

PosInf == [k |-> "inf", n |-> 1, d |-> 1]

NegInf == [k |-> "inf", n |-> -1, d |-> 1]

\* the float n/d (d # 0), in lowest terms with a positive denominator
Num(n, d) ==
    LET g == GCD(Abs(n), Abs(d))
        s == IF d < 0 THEN -1 ELSE 1
    IN  [k |-> "num", n |-> (s * n) \div g, d |-> Abs(d) \div g]

F(i) == Num(i, 1)

IsNaN(x) == x.k = "nan"

IsNum(x) == x.k = "num"

IsInf(x) == x.k = "inf"

Sign(x) == IF x.n > 0 THEN 1 ELSE IF x.n < 0 THEN -1 ELSE 0

\* x < y on floats: False whenever either side is NaN
FLt(x, y) ==
    IF IsNaN(x) \/ IsNaN(y) THEN FALSE
    ELSE IF IsInf(x) THEN x.n < 0 /\ ~(IsInf(y) /\ y.n < 0)
    ELSE IF IsInf(y) THEN y.n > 0
    ELSE x.n * y.d < y.n * x.d

FLe(x, y) ==
    IF IsNaN(x) \/ IsNaN(y) THEN FALSE
    ELSE x = y \/ FLt(x, y)

FGt(x, y) == FLt(y, x)

FGe(x, y) == FLe(y, x)

FNeg(x) == IF IsNaN(x) THEN NaN ELSE [x EXCEPT !.n = -x.n]

FAdd(x, y) ==
    IF IsNaN(x) \/ IsNaN(y) THEN NaN
    ELSE IF IsInf(x) /\ IsInf(y) THEN (IF x.n = y.n THEN x ELSE NaN)
    ELSE IF IsInf(x) THEN x
    ELSE IF IsInf(y) THEN y
    ELSE Num(x.n * y.d + y.n * x.d, x.d * y.d)

FSub(x, y) == FAdd(x, FNeg(y))

FMul(x, y) ==
    IF IsNaN(x) \/ IsNaN(y) THEN NaN
    ELSE IF IsInf(x) \/ IsInf(y)
         THEN (IF Sign(x) * Sign(y) = 0 THEN NaN
               ELSE IF Sign(x) * Sign(y) > 0 THEN PosInf ELSE NegInf)
    ELSE Num(x.n * y.n, x.d * y.d)

\* IEEE division as numpy performs it with the divide/invalid warnings
\* silenced: x/0 is +inf or -inf by the sign of x, 0/0 is NaN
FDiv(x, y) ==
    IF IsNaN(x) \/ IsNaN(y) THEN NaN
    ELSE IF IsInf(x) THEN (IF IsInf(y) THEN NaN
                           ELSE IF Sign(y) < 0 THEN FNeg(x) ELSE x)
    ELSE IF IsInf(y) THEN F(0)
    ELSE IF y.n = 0 THEN (IF x.n = 0 THEN NaN
                          ELSE IF x.n > 0 THEN PosInf ELSE NegInf)
    ELSE Num(x.n * y.d, x.d * y.n)

(***************************************************************************)
(* Tables                                                                  *)
(***************************************************************************)
None == [cols |-> {"<None>"}, rows |-> <<>>]

\* the database after PlantStore._ensure_schema() on a new file
EmptyDb == [plants |-> {}, fetch_cache |-> {}, readings |-> {}]

Len0(t) == Len(t.rows)

HasCol(t, c) == c \in t.cols

\* df[c] = vals: adds column c, or overwrites it, with one value per row
SetCol(t, c, vals) ==
    [cols |-> t.cols \cup {c},
     rows |-> [i \in DOMAIN t.rows |->
                 [x \in t.cols \cup {c} |->
                     IF x = c THEN vals[i] ELSE t.rows[i][x]]]]

\* df[c] = scalar
SetColConst(t, c, v) == SetCol(t, c, [i \in DOMAIN t.rows |-> v])

(***************************************************************************)
(* Configurable constants                                                  *)
(***************************************************************************)
POA_MIN == 200

POA_BIN_WIDTH == 100

WINDOW_DAYS == 7

(***************************************************************************)
(* calculate_pr                                                            *)
(***************************************************************************)
\* the unmasked quotient of one row
PrQuotient(r, c) ==
    FDiv(r["ac_power"], FMul(FDiv(r["poa"], F(1000)), c.dc_size_kw))

\* mutant: the mask writes 0 instead of NaN
PrCellMaskZero(r, c) ==
    IF FLt(r["poa"], F(POA_MIN)) THEN F(0) ELSE PrQuotient(r, c)

PrCell(r, c) ==
    IF FLt(r["poa"], F(POA_MIN)) THEN NaN ELSE PrQuotient(r, c)

calculate_pr(t, c) ==
    IF ~HasCol(t, "ac_power") \/ ~HasCol(t, "poa")
    THEN SetColConst(t, "pr", NaN)
    ELSE SetCol(t, "pr", [i \in DOMAIN t.rows |-> PrCell(t.rows[i], c)])

(***************************************************************************)
(* Aggregates                                                              *)
(***************************************************************************)
RECURSIVE InsertSorted(_, _)
InsertSorted(x, s) ==
    IF s = <<>> THEN <<x>>
    ELSE IF FLe(x, Head(s)) THEN <<x>> \o s
    ELSE <<Head(s)>> \o InsertSorted(x, Tail(s))

RECURSIVE SortFloats(_)
SortFloats(s) ==
    IF s = <<>> THEN <<>> ELSE InsertSorted(Head(s), SortFloats(Tail(s)))

DropNaN(s) == SelectSeq(s, LAMBDA x : ~IsNaN(x))

\* Series.median() / np.nanmedian: NaN cells are skipped; the mean of the two
\* middle values for an even count; NaN when nothing is left
Median(s) ==
    LET v == SortFloats(DropNaN(s))
        m == Len(v)
    IN  IF m = 0 THEN NaN
        ELSE IF m % 2 = 1 THEN v[(m + 1) \div 2]
        ELSE FDiv(FAdd(v[m \div 2], v[m \div 2 + 1]), F(2))

\* Series.sum(): NaN cells are skipped, the empty sum is 0
RECURSIVE SumSkipNaN(_)
SumSkipNaN(s) ==
    IF s = <<>> THEN F(0)
    ELSE IF IsNaN(Head(s)) THEN SumSkipNaN(Tail(s))
    ELSE FAdd(Head(s), SumSkipNaN(Tail(s)))

Mean(s) == FDiv(SumSkipNaN(s), F(Len(s)))

Column(t, c) == [i \in DOMAIN t.rows |-> t.rows[i][c]]

\* Python's built-in min(a, b) and max(a, b) on floats
PyMin(a, b) == IF FLt(b, a) THEN b ELSE a

PyMax(a, b) == IF FGt(b, a) THEN b ELSE a

(***************************************************************************)
(* The trailing window                                                     *)
(***************************************************************************)
ROWS_PER_DAY == 48

MaxTs(t) ==
    CHOOSE m \in {t.rows[i]["timestamp"] : i \in DOMAIN t.rows} :
        \A i \in DOMAIN t.rows : t.rows[i]["timestamp"] <= m

\* df.set_index(ts).sort_index().last(f"{days}D"): the rows strictly later than
\* (latest timestamp - days); row order inside the window plays no part in
\* the median or the sum taken over it
LastDays(t, days) ==
    IF t.rows = <<>> THEN t
    ELSE [cols |-> t.cols,
          rows |-> SelectSeq(t.rows,
                     LAMBDA r : r["timestamp"] > MaxTs(t) - days)]

\* df.tail(n): the last n rows; for n < 0 all rows but the first -n
Tail0(t, n) ==
    LET len == Len(t.rows)
        from == IF n >= 0 THEN (IF n >= len THEN 1 ELSE len - n + 1)
                ELSE (IF -n >= len THEN len + 1 ELSE -n + 1)
    IN  [cols |-> t.cols, rows |-> SubSeq(t.rows, from, len)]

Recent(t, days) ==
    IF HasCol(t, "timestamp") THEN LastDays(t, days)
    ELSE Tail0(t, days * ROWS_PER_DAY)

(***************************************************************************)
(* calculate_fouling_index                                                 *)
(***************************************************************************)
\* mutant: a row with a missing expected value counts as valid
ValidRowUnlessNonPositive(r, expected_col) ==
    ~FLe(r[expected_col], F(0)) /\ FGe(r["ac_power"], F(0))

ValidRow(r, expected_col) ==
    FGt(r[expected_col], F(0)) /\ FGe(r["ac_power"], F(0))

ValidRows(t, expected_col, days) ==
    SelectSeq(Recent(t, days).rows, LAMBDA r : ValidRow(r, expected_col))

Ratios(rows, expected_col) ==
    [i \in DOMAIN rows |-> FDiv(rows[i]["ac_power"], rows[i][expected_col])]

\* mutant: the lower clamp is missing
Clamp01NoLower(x) == PyMin(F(1), x)

Clamp01(x) == PyMax(F(0), PyMin(F(1), x))

calculate_fouling_index(t, expected_col, window_days) ==
    IF ~HasCol(t, expected_col) \/ ~HasCol(t, "ac_power") THEN NaN
    ELSE LET valid == ValidRows(t, expected_col, window_days)
         IN  IF valid = <<>> THEN NaN
             ELSE Clamp01(FSub(F(1), Median(Ratios(valid, expected_col))))

(***************************************************************************)
(* classify_fouling_level                                                  *)
(***************************************************************************)
FOULING_CLEAN == Num(5, 100)

FOULING_LIGHT == Num(10, 100)

FOULING_MODERATE == Num(20, 100)

\* mutant: strict comparisons put each boundary in the upper class
classify_fouling_level_strict(fouling_index) ==
    IF IsNaN(fouling_index) THEN "Insufficient Data"
    ELSE IF FLt(fouling_index, FOULING_CLEAN) THEN "Clean"
    ELSE IF FLt(fouling_index, FOULING_LIGHT) THEN "Light Soiling"
    ELSE IF FLt(fouling_index, FOULING_MODERATE) THEN "Moderate"
    ELSE "Severe"

classify_fouling_level(fouling_index) ==
    IF IsNaN(fouling_index) THEN "Insufficient Data"
    ELSE IF FLe(fouling_index, FOULING_CLEAN) THEN "Clean"
    ELSE IF FLe(fouling_index, FOULING_LIGHT) THEN "Light Soiling"
    ELSE IF FLe(fouling_index, FOULING_MODERATE) THEN "Moderate"
    ELSE "Severe"

(***************************************************************************)
(* estimate_energy_loss                                                    *)
(***************************************************************************)
\* Series.clip(lower=0): NaN stays NaN
ClipLower0(x) == IF FLt(x, F(0)) THEN F(0) ELSE x

\* mutant: the shortfall is not clipped at 0
RowLossUnclipped(r, expected_col) == FSub(r[expected_col], r["ac_power"])

RowLoss(r, expected_col) == ClipLower0(FSub(r[expected_col], r["ac_power"]))

Losses(rows, expected_col) ==
    [i \in DOMAIN rows |-> RowLoss(rows[i], expected_col)]

estimate_energy_loss(t, expected_col, period_days) ==
    IF ~HasCol(t, expected_col) \/ ~HasCol(t, "ac_power") THEN NaN
    ELSE LET energy_loss ==
                 SumSkipNaN(Losses(Recent(t, period_days).rows, expected_col))
         IN  IF period_days <= 0 THEN energy_loss
             ELSE FDiv(energy_loss, F(period_days))

(***************************************************************************)
(* DataFrame objects: a heap of tables addressed by reference              *)
(***************************************************************************)
\* a new DataFrame object holding t
Alloc(h, t) == [heap |-> Append(h, t), ref |-> Len(h) + 1]

\* mutant: no copy is taken, the callee keeps working on the caller's object
DfCopyAlias(h, r) == [heap |-> h, ref |-> r]

\* DataFrame.copy(): a new object with the same columns and rows
DfCopy(h, r) == Alloc(h, h[r])

\* an in-place assignment to the object behind reference r
Store(h, r, t) == [h EXCEPT ![r] = t]

(***************************************************************************)
(* estimate_clean_baseline_poa_matched                                     *)
(***************************************************************************)
\* (poa // POA_BIN_WIDTH) * POA_BIN_WIDTH
PoaBin(x) ==
    IF IsNum(x)
    THEN F((x.n \div (x.d * POA_BIN_WIDTH)) * POA_BIN_WIDTH)
    ELSE NaN

WithPoaBin(t) ==
    SetCol(t, "poa_bin", [i \in DOMAIN t.rows |-> PoaBin(t.rows[i]["poa"])])

\* mutant: the clean rows below POA_MIN are kept
CleanAtOrAboveMinUnfiltered(t) == t

\* clean_src[clean_src[poa] >= POA_MIN]
CleanAtOrAboveMin(t) ==
    [cols |-> t.cols,
     rows |-> SelectSeq(t.rows, LAMBDA r : FGe(r["poa"], F(POA_MIN)))]

\* mutant: the bin's mean instead of its median
BinMean(clean_src, col, bin) ==
    Mean(DropNaN(Column([cols |-> clean_src.cols,
                         rows |-> SelectSeq(clean_src.rows,
                                    LAMBDA r : r["poa_bin"] = bin)], col)))

\* clean_src.groupby("poa_bin")[col].median() looked up at one bin: the
\* median of the group, NaN when the bin has no group
BinMedian(clean_src, col, bin) ==
    Median(Column([cols |-> clean_src.cols,
                   rows |-> SelectSeq(clean_src.rows,
                              LAMBDA r : r["poa_bin"] = bin)], col))

\* df.merge(series named c, how="left", left_on="poa_bin", right_index=True):
\* every left row once, in order; a column c already present in df is
\* renamed c_x and the joined one is named c_y
MergeLeft(t, c, vals) ==
    IF HasCol(t, c)
    THEN [cols |-> (t.cols \ {c}) \cup {c \o "_x", c \o "_y"},
          rows |-> [i \in DOMAIN t.rows |->
                      [x \in (t.cols \ {c}) \cup {c \o "_x", c \o "_y"} |->
                          IF x = c \o "_x" THEN t.rows[i][c]
                          ELSE IF x = c \o "_y" THEN vals[i]
                          ELSE t.rows[i][x]]]]
    ELSE SetCol(t, c, vals)

\* mutant: a bin without a clean group takes the median of the bin below
ExpectedByBinOrBelow(t, clean_src, col) ==
    [i \in DOMAIN t.rows |->
        IF IsNaN(t.rows[i]["poa_bin"]) THEN NaN
        ELSE LET own == BinMedian(clean_src, col, t.rows[i]["poa_bin"])
             IN  IF IsNaN(own)
                 THEN BinMedian(clean_src, col,
                                FSub(t.rows[i]["poa_bin"], F(POA_BIN_WIDTH)))
                 ELSE own]

ExpectedByBin(t, clean_src, col) ==
    [i \in DOMAIN t.rows |->
        IF IsNaN(t.rows[i]["poa_bin"]) THEN NaN
        ELSE BinMedian(clean_src, col, t.rows[i]["poa_bin"])]

\* the two early returns: both expected columns are set to NaN in place
NoBaseline(h, d) ==
    [heap |-> Store(h, d,
                SetColConst(SetColConst(h[d], "expected_clean_power", NaN),
                            "expected_clean_pr", NaN)),
     ref |-> d]

\* the call on DataFrame objects: h is the heap at the call, df_ref and
\* clean_ref the arguments; the result is the heap at the return and the
\* reference returned
EstimateBaselineOnHeap(h, df_ref, clean_ref) ==
    LET a  == DfCopy(h, df_ref)
        b  == DfCopy(a.heap, clean_ref)
        d  == a.ref
        h1 == b.heap
    IN  IF ~HasCol(h1[b.ref], "poa") \/ ~HasCol(h1[b.ref], "ac_power")
        THEN NoBaseline(h1, d)
        ELSE
          LET c == Alloc(h1, CleanAtOrAboveMin(h1[b.ref]))
          IN  IF c.heap[c.ref].rows = <<>>
              THEN NoBaseline(c.heap, d)
              ELSE
                LET h2 == Store(c.heap, d, WithPoaBin(c.heap[d]))
                    h3 == Store(h2, c.ref, WithPoaBin(h2[c.ref]))
                    m  == Alloc(h3, MergeLeft(h3[d], "expected_clean_power",
                                  ExpectedByBin(h3[d], h3[c.ref], "ac_power")))
                IN  IF HasCol(h3[c.ref], "pr")
                    THEN Alloc(m.heap,
                               MergeLeft(m.heap[m.ref], "expected_clean_pr",
                                  ExpectedByBin(m.heap[m.ref], h3[c.ref], "pr")))
                    ELSE [heap |-> Store(m.heap, m.ref,
                                     SetColConst(m.heap[m.ref],
                                                 "expected_clean_pr", NaN)),
                          ref |-> m.ref]

\* the table the call returns
estimate_clean_baseline_poa_matched(t, clean) ==
    LET r == EstimateBaselineOnHeap(<<t, clean>>, 1, 2)
    IN  r.heap[r.ref]

(***************************************************************************)
(* fit_clean_regression_model / apply_clean_model                          *)
(***************************************************************************)
NoModel == [fitted |-> FALSE, coef |-> NaN, intercept |-> NaN]

\* ordinary least squares on one regressor, as LinearRegression fits it
\* (centered data, minimum-norm solution: slope 0 when all x are equal)
LeastSquares(x, y) ==
    LET mx   == Mean(x)
        my   == Mean(y)
        sxx  == SumSkipNaN([i \in DOMAIN x |->
                   FMul(FSub(x[i], mx), FSub(x[i], mx))])
        sxy  == SumSkipNaN([i \in DOMAIN x |->
                   FMul(FSub(x[i], mx), FSub(y[i], my))])
        coef == IF sxx = F(0) THEN F(0) ELSE FDiv(sxy, sxx)
    IN  [fitted |-> TRUE, coef |-> coef,
         intercept |-> FSub(my, FMul(coef, mx))]

HasNaN(s) == \E i \in DOMAIN s : ~IsNum(s[i])

\* LinearRegression.fit raises ValueError on NaN or infinite input
FitRaises(clean, c) ==
    /\ c.has_sklearn
    /\ HasCol(clean, "poa") /\ HasCol(clean, "ac_power")
    /\ HasNaN(Column(CleanAtOrAboveMin(clean), "ac_power"))

fit_clean_regression_model(clean, c) ==
    IF ~c.has_sklearn THEN NoModel
    ELSE IF ~HasCol(clean, "poa") \/ ~HasCol(clean, "ac_power") THEN NoModel
    ELSE LET clean_src == CleanAtOrAboveMin(clean)
         IN  IF clean_src.rows = <<>> THEN NoModel
             ELSE LeastSquares(Column(clean_src, "poa"),
                               Column(clean_src, "ac_power"))

\* model.predict raises ValueError on NaN input
PredictRaises(t, model) ==
    model.fitted /\ HasCol(t, "poa") /\ HasNaN(Column(t, "poa"))

apply_clean_model(t, model) ==
    IF ~model.fitted \/ ~HasCol(t, "poa")
    THEN SetColConst(t, "expected_clean_model", NaN)
    ELSE SetCol(t, "expected_clean_model",
                [i \in DOMAIN t.rows |->
                    FAdd(model.intercept,
                         FMul(model.coef, t.rows[i]["poa"]))])

(***************************************************************************)
(* detect_cleaning_events                                                  *)
(***************************************************************************)
CLEANING_THRESHOLD == Num(10, 100)

\* Series.rolling(3, min_periods=1).median() at row i
RollingMedian3(s, i) ==
    Median(SubSeq(s, IF i > 2 THEN i - 2 ELSE 1, i))

\* Series.diff() at row i
Diff(s, i) == IF i = 1 THEN NaN ELSE FSub(s[i], s[i - 1])

\* mutant: a change equal to the threshold is flagged too
ReachesThreshold(change, pr_med) ==
    FGe(change, FMul(CLEANING_THRESHOLD, pr_med))

\* df["pr_change"] > threshold * pr_med at one row
ExceedsThreshold(change, pr_med) ==
    FGt(change, FMul(CLEANING_THRESHOLD, pr_med))

detect_cleaning_events(t) ==
    IF ~HasCol(t, "pr") THEN SetColConst(t, "cleaning_event", FALSE)
    ELSE LET pr     == Column(t, "pr")
             roll   == [i \in DOMAIN t.rows |-> RollingMedian3(pr, i)]
             pr_med == Median(roll)
             change == [i \in DOMAIN t.rows |-> Diff(roll, i)]
         IN  SetCol(SetCol(SetCol(t, "pr_roll", roll), "pr_change", change),
                    "cleaning_event",
                    [i \in DOMAIN t.rows |->
                        ExceedsThreshold(change[i], pr_med)])

CountEvents(t) ==
    Cardinality({i \in DOMAIN t.rows : t.rows[i]["cleaning_event"]})

(***************************************************************************)
(* Input tables                                                            *)
(***************************************************************************)
\* every table with the given columns and at most n rows drawn from rowset
TablesOf(cols, rowset, n) ==
    {[cols |-> cols, rows |-> s] : s \in UNION {[1..k -> rowset] : k \in 0..n}}

\* FoulingConfig() plus the defaults of the keyword arguments; entry names
\* the function the caller invoked and has_sklearn whether the import of
\* LinearRegression succeeded
DefaultCfg ==
    [entry |-> "", dc_size_kw |-> F(1), window_days |-> WINDOW_DAYS,
     has_sklearn |-> TRUE]

NoResult ==
    [raised |-> "", fouling_index |-> NaN, fouling_level |-> "",
     energy_loss_kwh_per_day |-> NaN, cleaning_events_detected |-> 0]

(***************************************************************************)
(* SpecPR: calculate_pr called on a table                                  *)
(***************************************************************************)
MaxRowsPR == 2

PrAcVals == {NaN, F(-5), F(0), F(10)}

PrPoaVals == {NaN, F(0), F(199), F(200), F(1000)}

PrDcVals == {F(0), F(1), F(10)}

PrRows ==
    {[timestamp |-> 0, ac_power |-> a, poa |-> p] :
        a \in PrAcVals, p \in PrPoaVals}

PrRowsNoPoa == {[timestamp |-> 0, ac_power |-> a] : a \in PrAcVals}

PrTables ==
    TablesOf({"timestamp", "ac_power", "poa"}, PrRows, MaxRowsPR)
    \cup TablesOf({"timestamp", "ac_power"}, PrRowsNoPoa, 1)

InitPR ==
    /\ pc = "calculate_pr"
    /\ df \in PrTables
    /\ cfg \in {[DefaultCfg EXCEPT !.entry = "calculate_pr", !.dc_size_kw = dc] :
                  dc \in PrDcVals}
    /\ clean_df = None
    /\ l_df = None
    /\ l_clean = None
    /\ heap = <<>>
    /\ out = NoResult
    /\ db = EmptyDb

CallCalculatePr ==
    /\ pc = "calculate_pr"
    /\ l_df' = calculate_pr(df, cfg)
    /\ pc' = "returned"
    /\ UNCHANGED <<db, cfg, df, clean_df, l_clean, heap, out>>

NextPR == CallCalculatePr

SpecPR == InitPR /\ [][NextPR]_vars

(***************************************************************************)
(* SpecScore: the fouling scorer called on an enriched table               *)
(***************************************************************************)
MaxRowsScore == 2

ScoreTsVals == {1, 8}

ScoreAcVals == {F(-4), F(0), F(8), F(12)}

ScoreExpectedVals == {NaN, F(0), F(10)}

ScoreDaysVals == {-1, 0, 7}

IndexVals ==
    {NaN, F(0), Num(3, 100), Num(5, 100), Num(50001, 1000000), Num(10, 100),
     Num(101, 1000), Num(20, 100), Num(201, 1000), F(1)}

ScoreRows ==
    {[timestamp |-> t, ac_power |-> a, expected_clean_power |-> e] :
        t \in ScoreTsVals, a \in ScoreAcVals, e \in ScoreExpectedVals}

ScoreRowsNoTs ==
    {[ac_power |-> a, expected_clean_power |-> e] :
        a \in ScoreAcVals, e \in ScoreExpectedVals}

ScoreTables ==
    TablesOf({"timestamp", "ac_power", "expected_clean_power"},
             ScoreRows, MaxRowsScore)
    \cup TablesOf({"ac_power", "expected_clean_power"},
                  ScoreRowsNoTs, MaxRowsScore)

InitScore ==
    /\ df = None
    /\ clean_df = None
    /\ l_clean = None
    /\ heap = <<>>
    /\ db = EmptyDb
    /\ \/ /\ pc = "calculate_fouling_index"
          /\ l_df \in ScoreTables
          /\ cfg \in {[DefaultCfg EXCEPT !.entry = "calculate_fouling_index",
                                         !.window_days = w] :
                        w \in ScoreDaysVals}
          /\ out = NoResult
       \/ /\ pc = "classify_fouling_level"
          /\ l_df = None
          /\ cfg = [DefaultCfg EXCEPT !.entry = "classify_fouling_level"]
          /\ out \in {[NoResult EXCEPT !.fouling_index = v] : v \in IndexVals}

CallFoulingIndex ==
    /\ pc = "calculate_fouling_index"
    /\ out' = [out EXCEPT !.fouling_index =
                 calculate_fouling_index(l_df, "expected_clean_power",
                                         cfg.window_days)]
    /\ pc' = "classify_fouling_level"
    /\ UNCHANGED <<db, cfg, df, clean_df, l_df, l_clean, heap>>

CallClassify ==
    /\ pc = "classify_fouling_level"
    /\ out' = [out EXCEPT !.fouling_level =
                 classify_fouling_level(out.fouling_index)]
    /\ pc' = IF cfg.entry = "classify_fouling_level" THEN "returned"
             ELSE "estimate_energy_loss"
    /\ UNCHANGED <<db, cfg, df, clean_df, l_df, l_clean, heap>>

CallEnergyLoss ==
    /\ pc = "estimate_energy_loss"
    /\ out' = [out EXCEPT !.energy_loss_kwh_per_day =
                 estimate_energy_loss(l_df, "expected_clean_power",
                                      cfg.window_days)]
    /\ pc' = IF cfg.entry = "run_fouling_analysis"
             THEN "detect_cleaning_events" ELSE "returned"
    /\ UNCHANGED <<db, cfg, df, clean_df, l_df, l_clean, heap>>

NextScore == CallFoulingIndex \/ CallClassify \/ CallEnergyLoss

SpecScore == InitScore /\ [][NextScore]_vars

(***************************************************************************)
(* run_fouling_analysis                                                    *)
(***************************************************************************)
\* mutant: only a missing table is rejected, an empty one is let through
CleanMissingNoneOnly(clean) == clean = None

\* clean_df is None or len(clean_df) == 0
CleanMissing(clean) == clean = None \/ Len(clean.rows) = 0

\* steps 3-4 on the clean table: PR, then the is_clean column
PrepareClean(clean, c) == SetColConst(calculate_pr(clean, c), "is_clean", TRUE)

\* the value returned on the path that raises nothing (steps 1-10); the
\* tables carry the standard column names and parsed timestamps, so steps
\* 1-2 change nothing in them
run_fouling_analysis(full, clean, c) ==
    LET clean1 == PrepareClean(clean, c)
        df5 == estimate_clean_baseline_poa_matched(calculate_pr(full, c), clean1)
        df6 == apply_clean_model(df5, fit_clean_regression_model(clean1, c))
        fi  == calculate_fouling_index(df6, "expected_clean_power", WINDOW_DAYS)
        df10 == detect_cleaning_events(df6)
    IN  [fouling_index |-> fi,
         fouling_level |-> classify_fouling_level(fi),
         energy_loss_kwh_per_day |->
             estimate_energy_loss(df6, "expected_clean_power", WINDOW_DAYS),
         cleaning_events_detected |-> CountEvents(df10),
         df |-> df10]

RfaValidate ==
    /\ pc = "run_fouling_analysis"
    /\ IF CleanMissing(clean_df)
       THEN /\ out' = [out EXCEPT !.raised = "ValueError"]
            /\ pc' = "raised"
            /\ UNCHANGED <<l_df, l_clean>>
       ELSE /\ l_df' = df
            /\ l_clean' = clean_df
            /\ pc' = "calculate_pr"
            /\ UNCHANGED out
    /\ UNCHANGED <<db, cfg, df, clean_df, heap>>

RfaCalculatePr ==
    /\ pc = "calculate_pr"
    /\ cfg.entry = "run_fouling_analysis"
    /\ l_df' = calculate_pr(l_df, cfg)
    /\ l_clean' = PrepareClean(l_clean, cfg)
    /\ pc' = "estimate_clean_baseline_poa_matched"
    /\ UNCHANGED <<db, cfg, df, clean_df, heap, out>>

RfaBaseline ==
    /\ pc = "estimate_clean_baseline_poa_matched"
    /\ cfg.entry = "run_fouling_analysis"
    /\ l_df' = estimate_clean_baseline_poa_matched(l_df, l_clean)
    /\ pc' = "apply_clean_model"
    /\ UNCHANGED <<db, cfg, df, clean_df, l_clean, heap, out>>

RfaRegression ==
    /\ pc = "apply_clean_model"
    /\ LET model == fit_clean_regression_model(l_clean, cfg)
       IN  IF FitRaises(l_clean, cfg) \/ PredictRaises(l_df, model)
           THEN /\ out' = [out EXCEPT !.raised = "ValueError"]
                /\ pc' = "raised"
                /\ UNCHANGED l_df
           ELSE /\ l_df' = apply_clean_model(l_df, model)
                /\ pc' = "calculate_fouling_index"
                /\ UNCHANGED out
    /\ UNCHANGED <<db, cfg, df, clean_df, l_clean, heap>>

RfaDetectAndReturn ==
    /\ pc = "detect_cleaning_events"
    /\ l_df' = detect_cleaning_events(l_df)
    /\ out' = [out EXCEPT !.cleaning_events_detected = CountEvents(l_df')]
    /\ pc' = "returned"
    /\ UNCHANGED <<db, cfg, df, clean_df, l_clean, heap>>

NextRfa ==
    \/ RfaValidate
    \/ RfaCalculatePr
    \/ RfaBaseline
    \/ RfaRegression
    \/ CallFoulingIndex
    \/ CallClassify
    \/ CallEnergyLoss
    \/ RfaDetectAndReturn

\* a series: row i carries the i-th timestamp of its schedule, "dense" one
\* reading a day, "sparse" one reading a week
TsOf(schedule, i) == IF schedule = "dense" THEN i ELSE 7 * i

SeriesOf(schedule, cells) ==
    [cols |-> {"timestamp", "ac_power", "poa"},
     rows |-> [i \in DOMAIN cells |->
                 [timestamp |-> TsOf(schedule, i),
                  ac_power |-> cells[i][1], poa |-> cells[i][2]]]]

SeriesUpTo(acs, poas, n) ==
    {SeriesOf(sch, cells) :
        sch \in {"dense", "sparse"},
        cells \in UNION {[1..k -> acs \X poas] : k \in 0..n}}

RfaCfgs ==
    {[DefaultCfg EXCEPT !.entry = "run_fouling_analysis", !.has_sklearn = b] :
        b \in BOOLEAN}

(***************************************************************************)
(* Spec: run_fouling_analysis on a full table and a clean table            *)
(***************************************************************************)
MaxRowsFull == 2

MaxRowsClean == 2

FullAcVals == {F(8), F(10)}

FullPoaVals == {F(150), F(250), F(350)}

CleanAcVals == {F(10)}

CleanPoaVals == {F(150), F(250)}

Init ==
    /\ pc = "run_fouling_analysis"
    /\ cfg \in RfaCfgs
    /\ df \in SeriesUpTo(FullAcVals, FullPoaVals, MaxRowsFull)
    /\ clean_df \in {None} \cup
          {SeriesOf("dense", cells) :
              cells \in UNION {[1..k -> CleanAcVals \X CleanPoaVals] :
                                 k \in 0..MaxRowsClean}}
    /\ l_df = None
    /\ l_clean = None
    /\ heap = <<>>
    /\ out = NoResult
    /\ db = EmptyDb

Next == NextRfa

Spec == Init /\ [][Next]_vars

(***************************************************************************)
(* SpecSelf: run_fouling_analysis with the full table as its own clean     *)
(* reference                                                               *)
(***************************************************************************)
MaxRowsSelf == 3

SelfAcVals == {F(0), F(8), F(10)}

SelfPoaVals == {F(150), F(250), F(350)}

InitSelf ==
    /\ pc = "run_fouling_analysis"
    /\ cfg = [DefaultCfg EXCEPT !.entry = "run_fouling_analysis"]
    /\ df \in SeriesUpTo(SelfAcVals, SelfPoaVals, MaxRowsSelf)
    /\ clean_df = df
    /\ l_df = None
    /\ l_clean = None
    /\ heap = <<>>
    /\ out = NoResult
    /\ db = EmptyDb

SpecSelf == InitSelf /\ [][NextRfa]_vars

(***************************************************************************)
(* SpecBaseline: estimate_clean_baseline_poa_matched called twice on the   *)
(* same two DataFrame objects; heap[1] and heap[2] are the caller's        *)
(* tables, out lists the references the calls returned                     *)
(***************************************************************************)
MaxRowsBaseFull == 2

MaxRowsBaseClean == 2

BaseFullAcVals == {F(8)}

BaseFullPoaVals == {F(150), F(250), F(350)}

BaseCleanAcVals == {F(8), F(10)}

BaseCleanPoaVals == {F(150), F(250), F(280)}

\* the clean table as the callers pass it: with PR (run_fouling_analysis),
\* without it, or without an irradiance column
DropCol(t, c) ==
    [cols |-> t.cols \ {c},
     rows |-> [i \in DOMAIN t.rows |-> [x \in t.cols \ {c} |-> t.rows[i][x]]]]

BaseCleanTables ==
    LET raw == {SeriesOf("dense", cells) :
                  cells \in UNION {[1..k -> BaseCleanAcVals \X BaseCleanPoaVals] :
                                     k \in 0..MaxRowsBaseClean}}
    IN  raw \cup {calculate_pr(t, DefaultCfg) : t \in raw}
            \cup {DropCol(t, "poa") : t \in raw}

InitBaseline ==
    /\ pc = "estimate_clean_baseline_poa_matched"
    /\ cfg = [DefaultCfg EXCEPT !.entry = "estimate_clean_baseline_poa_matched"]
    /\ df \in {calculate_pr(t, DefaultCfg) :
                 t \in SeriesUpTo(BaseFullAcVals, BaseFullPoaVals,
                                  MaxRowsBaseFull)}
    /\ clean_df \in BaseCleanTables
    /\ l_df = None
    /\ l_clean = None
    /\ heap = <<df, clean_df>>
    /\ out = <<>>
    /\ db = EmptyDb

CallEstimateBaseline ==
    /\ pc = "estimate_clean_baseline_poa_matched"
    /\ cfg.entry = "estimate_clean_baseline_poa_matched"
    /\ LET r == EstimateBaselineOnHeap(heap, 1, 2)
       IN  /\ heap' = r.heap
           /\ out' = Append(out, r.ref)
    /\ pc' = IF Len(out) = 1 THEN "returned" ELSE pc
    /\ UNCHANGED <<db, cfg, df, clean_df, l_df, l_clean>>

NextBaseline == CallEstimateBaseline

SpecBaseline == InitBaseline /\ [][NextBaseline]_vars

(***************************************************************************)
(* Claims about calculate_pr (SpecPR)                                      *)
(***************************************************************************)
PrDenominator(r) == FMul(FDiv(r["poa"], F(1000)), cfg.dc_size_kw)

PrReturned == pc = "returned" /\ HasCol(df, "poa") /\ HasCol(l_df, "pr")

\* C2: every row with POA below POA_MIN gets PR = NaN (not zero, not a
\* number) whatever its AC power and the DC capacity; every row at or above
\* POA_MIN with a non-zero denominator gets the number PR for which
\* PR * POA * DC = 1000 * AC (NaN when the AC power is missing).
C2_LowIrradiancePrIsNaN ==
    PrReturned =>
        \A i \in DOMAIN df.rows :
            LET r  == df.rows[i]
                pr == l_df.rows[i]["pr"]
            IN  /\ FLt(r["poa"], F(POA_MIN)) => IsNaN(pr)
                /\ (FGe(r["poa"], F(POA_MIN)) /\ cfg.dc_size_kw # F(0)) =>
                      IF IsNaN(r["ac_power"]) THEN IsNaN(pr)
                      ELSE /\ IsNum(pr)
                           /\ FMul(pr, FMul(r["poa"], cfg.dc_size_kw))
                                = FMul(F(1000), r["ac_power"])

C2_Witness ==
    /\ PrReturned
    /\ cfg.dc_size_kw = F(10)
    /\ \E i \in DOMAIN df.rows :
          /\ df.rows[i]["poa"] = F(199)
          /\ df.rows[i]["ac_power"] = F(10)
          /\ IsNaN(l_df.rows[i]["pr"])
    /\ \E i \in DOMAIN df.rows :
          /\ df.rows[i]["poa"] = F(200)
          /\ df.rows[i]["ac_power"] = F(10)
          /\ l_df.rows[i]["pr"] = F(5)

\* C3: a zero PR denominator (POA/1000 * DC = 0) is masked to NaN like a
\* low-irradiance row, and no row of the output carries an infinite PR.
C3_ZeroDenominatorMaskedToNaN ==
    PrReturned =>
        \A i \in DOMAIN df.rows :
            /\ ~IsInf(l_df.rows[i]["pr"])
            /\ PrDenominator(df.rows[i]) = F(0) => IsNaN(l_df.rows[i]["pr"])

(***************************************************************************)
(* Claims about the scorer (SpecScore)                                     *)
(***************************************************************************)
IndexComputed ==
    /\ l_df # None
    /\ pc \in {"classify_fouling_level", "estimate_energy_loss", "returned"}

\* row i of the scored table lies in the trailing window of the given days
InTrailingWindow(i, days) ==
    IF HasCol(l_df, "timestamp")
    THEN \A j \in DOMAIN l_df.rows :
            l_df.rows[i]["timestamp"] > l_df.rows[j]["timestamp"] - days
    ELSE IF days >= 0 THEN i > Len(l_df.rows) - days * ROWS_PER_DAY
         ELSE i > (-days) * ROWS_PER_DAY

ScoredRows(days) ==
    {i \in DOMAIN l_df.rows :
        /\ InTrailingWindow(i, days)
        /\ FGt(l_df.rows[i]["expected_clean_power"], F(0))
        /\ FGe(l_df.rows[i]["ac_power"], F(0))}

\* C4: the fouling index is NaN or lies in [0,1]; it is NaN exactly when no
\* row of the trailing window has expected > 0 and actual >= 0; it is 0 only
\* when the median of actual/expected over those rows is >= 1.
C4_FoulingIndexRange ==
    IndexComputed =>
        LET fi == out.fouling_index
        IN  /\ IsNaN(fi) \/ (FLe(F(0), fi) /\ FLe(fi, F(1)))
            /\ IsNaN(fi) <=> ScoredRows(cfg.window_days) = {}
            /\ fi = F(0) =>
                  FGe(Median(Ratios(ValidRows(l_df, "expected_clean_power",
                                              cfg.window_days),
                                    "expected_clean_power")), F(1))

C4_Witness ==
    /\ IndexComputed
    /\ out.fouling_index = F(0)
    /\ Cardinality(ScoredRows(cfg.window_days)) = 2
    /\ \E i \in ScoredRows(cfg.window_days) : l_df.rows[i]["ac_power"] = F(8)
    /\ \E i \in ScoredRows(cfg.window_days) : l_df.rows[i]["ac_power"] = F(12)

Classified == pc \in {"estimate_energy_loss", "returned"}

\* C5: the classification is a total partition of [0,1] and NaN with the
\* boundaries in the lower class: NaN -> Insufficient Data, x <= 1/20 ->
\* Clean, 1/20 < x <= 1/10 -> Light Soiling, 1/10 < x <= 1/5 -> Moderate,
\* x > 1/5 -> Severe.
C5_ClassificationPartition ==
    Classified =>
        LET x == out.fouling_index
        IN  out.fouling_level =
              IF IsNaN(x) THEN "Insufficient Data"
              ELSE IF 20 * x.n <= x.d THEN "Clean"
              ELSE IF 10 * x.n <= x.d THEN "Light Soiling"
              ELSE IF 5 * x.n <= x.d THEN "Moderate"
              ELSE "Severe"

C5_Witness ==
    /\ pc = "returned"
    /\ out.fouling_index = Num(1, 5)
    /\ out.fouling_level = "Moderate"

AllFinite ==
    \A i \in DOMAIN l_df.rows :
        IsNum(l_df.rows[i]["expected_clean_power"])
        /\ IsNum(l_df.rows[i]["ac_power"])

\* the shortfall of row i, counted only when positive
Shortfall(i) ==
    LET e == l_df.rows[i]["expected_clean_power"]
        a == l_df.rows[i]["ac_power"]
    IN  IF FGt(e, a) THEN FSub(e, a) ELSE F(0)

WindowShortfall(days) ==
    SumSkipNaN([i \in DOMAIN l_df.rows |->
                  IF InTrailingWindow(i, days) THEN Shortfall(i) ELSE F(0)])

\* C8: with finite expected and actual columns the energy loss is a finite
\* number >= 0 for every integer period_days: the sum of the positive
\* shortfalls of the window, divided by period_days only when period_days > 0.
C8_EnergyLossNonNegative ==
    (pc = "returned" /\ l_df # None /\ AllFinite) =>
        LET loss == out.energy_loss_kwh_per_day
            days == cfg.window_days
        IN  /\ IsNum(loss)
            /\ FGe(loss, F(0))
            /\ days <= 0 => loss = WindowShortfall(days)
            /\ days > 0 => FMul(loss, F(days)) = WindowShortfall(days)

C8_Witness ==
    /\ pc = "returned" /\ l_df # None /\ AllFinite
    /\ cfg.window_days = 7
    /\ Len(l_df.rows) = 2
    /\ \A i \in DOMAIN l_df.rows :
          /\ InTrailingWindow(i, 7)
          /\ FGt(l_df.rows[i]["ac_power"], l_df.rows[i]["expected_clean_power"])
    /\ out.energy_loss_kwh_per_day = F(0)

(***************************************************************************)
(* Claims about run_fouling_analysis (Spec, SpecSelf)                      *)
(***************************************************************************)
\* C1: whenever the clean table is None or has no rows the call raises
\* ValueError before anything is computed: no index, level, energy loss or
\* enriched table exists in that run.
C1_MissingCleanRaises ==
    ((clean_df = None \/ Len(clean_df.rows) = 0)
        /\ pc # "run_fouling_analysis") =>
        /\ pc = "raised"
        /\ out = [NoResult EXCEPT !.raised = "ValueError"]
        /\ l_df = None
        /\ l_clean = None

C1_Witness ==
    /\ pc = "raised"
    /\ clean_df # None
    /\ Len(clean_df.rows) = 0
    /\ Len(df.rows) = 2
    /\ out.raised = "ValueError"

BinOf(x) == x.n \div (x.d * POA_BIN_WIDTH)

\* row i of the full table lies in the 7-day trailing window
InWindowOfFull(i) ==
    \A j \in DOMAIN df.rows :
        df.rows[i]["timestamp"] > df.rows[j]["timestamp"] - WINDOW_DAYS

\* row i of the full table lies in a POA bin that has a clean baseline
HasCleanBaseline(i) ==
    \E j \in DOMAIN clean_df.rows :
        /\ FGe(clean_df.rows[j]["poa"], F(POA_MIN))
        /\ BinOf(clean_df.rows[j]["poa"]) = BinOf(df.rows[i]["poa"])

NoBinOverlap ==
    /\ clean_df # None
    /\ Len(clean_df.rows) > 0
    /\ \A i \in DOMAIN df.rows : InWindowOfFull(i) => ~HasCleanBaseline(i)

ApproxZero(x) == IsNum(x) /\ Abs(x.n) * 1000000 <= x.d

AllInWindow == \A i \in DOMAIN df.rows : InWindowOfFull(i)

SameBin(i, j) ==
    /\ FGe(df.rows[i]["poa"], F(POA_MIN))
    /\ FGe(df.rows[j]["poa"], F(POA_MIN))
    /\ BinOf(df.rows[i]["poa"]) = BinOf(df.rows[j]["poa"])

UniformBins ==
    \A i, j \in DOMAIN df.rows :
        SameBin(i, j) => df.rows[i]["ac_power"] = df.rows[j]["ac_power"]

\* the median AC power of the rows of the full table sharing row i's bin
OwnBinMedian(i) ==
    Median(Column([cols |-> df.cols,
                   rows |-> SelectSeq(df.rows,
                              LAMBDA r : FGe(r["poa"], F(POA_MIN))
                                         /\ BinOf(r["poa"])
                                              = BinOf(df.rows[i]["poa"]))],
                  "ac_power"))

SelfScoredRows ==
    {i \in DOMAIN df.rows :
        /\ InWindowOfFull(i)
        /\ FGe(df.rows[i]["poa"], F(POA_MIN))
        /\ FGt(OwnBinMedian(i), F(0))
        /\ FGe(df.rows[i]["ac_power"], F(0))}

WithAc(t, i, v) ==
    [t EXCEPT !.rows = [t.rows EXCEPT ![i] = [t.rows[i] EXCEPT !["ac_power"] = v]]]

PerturbedAcVals == {NaN, F(-3), F(0), F(1000)}

LowRows(t) == {i \in DOMAIN t.rows : FLt(t.rows[i]["poa"], F(POA_MIN))}

\* the run on other inputs gives what this run gave
SameVerdict(r) ==
    /\ r.fouling_index = out.fouling_index
    /\ r.fouling_level = out.fouling_level
    /\ r.energy_loss_kwh_per_day = out.energy_loss_kwh_per_day
    /\ r.cleaning_events_detected = out.cleaning_events_detected
    /\ \A k \in DOMAIN l_df.rows :
          /\ r.df.rows[k]["expected_clean_power"]
               = l_df.rows[k]["expected_clean_power"]
          /\ r.df.rows[k]["expected_clean_pr"] = l_df.rows[k]["expected_clean_pr"]
          /\ r.df.rows[k]["cleaning_event"] = l_df.rows[k]["cleaning_event"]

\* C9: no row of the full table with POA < POA_MIN has a non-missing
\* expected_clean_power or expected_clean_pr, and replacing the AC power of
\* any row with POA < POA_MIN, in the full table or in the clean table,
\* changes no expected value, nor the index, the level, the energy loss or
\* the cleaning-event flags.
C9_LowIrradianceExcluded ==
    pc = "returned" =>
        /\ \A i \in LowRows(df) :
              /\ IsNaN(l_df.rows[i]["expected_clean_power"])
              /\ IsNaN(l_df.rows[i]["expected_clean_pr"])
        /\ \A i \in LowRows(df) : \A v \in PerturbedAcVals :
              SameVerdict(run_fouling_analysis(WithAc(df, i, v), clean_df, cfg))
        /\ \A j \in LowRows(clean_df) : \A v \in PerturbedAcVals :
              SameVerdict(run_fouling_analysis(df, WithAc(clean_df, j, v), cfg))

C9_Witness ==
    /\ pc = "returned"
    /\ LowRows(df) # {}
    /\ LowRows(clean_df) # {}
    /\ IsNum(out.fouling_index)
    /\ FGt(out.energy_loss_kwh_per_day, F(0))

(***************************************************************************)
(* Claims about estimate_clean_baseline_poa_matched (SpecBaseline)         *)
(***************************************************************************)
\* C10: the call returns a new table and leaves the full table and the clean
\* table it was given unchanged (same columns, rows and values), and a second
\* call on the same pair returns an identical baseline.
C10_BaselineLeavesInputsUnchanged ==
    /\ heap[1] = df
    /\ heap[2] = clean_df
    /\ \A k \in DOMAIN out : out[k] \notin {1, 2}
    /\ Len(out) = 2 => heap[out[1]] = heap[out[2]]

C10_Witness ==
    /\ pc = "returned"
    /\ Len(out) = 2
    /\ heap[1] = df
    /\ Len(df.rows) = 2
    /\ HasCol(heap[out[2]], "poa_bin")
    /\ \E i \in DOMAIN df.rows :
          IsNum(heap[out[2]].rows[i]["expected_clean_power"])
    /\ \E i \in DOMAIN df.rows :
          IsNaN(heap[out[2]].rows[i]["expected_clean_power"])

(***************************************************************************)
(* auto_select_clean_period                                                *)
(*                                                                         *)
(* Here a timestamp cell counts half-hour slots since the first midnight.  *)
(***************************************************************************)
SLOTS_PER_DAY == 48

\* Series.dt.date: the calendar date of a timestamp
DateOnly(ts) == ts \div SLOTS_PER_DAY

\* pd.DataFrame()
EmptyFrame == [cols |-> {}, rows |-> <<>>]

\* mutant: every reading of the day is counted
EveryReading(r) == TRUE

\* work[(work[poa] >= POA_MIN) & work["pr"].notna()]
RankedRow(r) == FGe(r["poa"], F(POA_MIN)) /\ ~IsNaN(r["pr"])

RankingSubset(t) ==
    LET w == [cols |-> t.cols,
              rows |-> SelectSeq(t.rows, LAMBDA r : RankedRow(r))]
    IN  SetCol(w, "date_only",
               [i \in DOMAIN w.rows |-> DateOnly(w.rows[i]["timestamp"])])

\* one row of groupby("date_only")["pr"].agg(["median", "count"])
DailyRow(w, d) ==
    LET rs == SelectSeq(w.rows, LAMBDA r : r["date_only"] = d)
    IN  [date_only |-> d,
         median |-> Median([i \in DOMAIN rs |-> rs[i]["pr"]]),
         count |-> Len(rs)]

\* the group keys in ascending order, as groupby sorts them
RECURSIVE AscendingDates(_)
AscendingDates(S) ==
    IF S = {} THEN <<>>
    ELSE LET d == CHOOSE x \in S : \A y \in S : x <= y
         IN  <<d>> \o AscendingDates(S \ {d})

DailyStats(w) ==
    LET ds == AscendingDates({w.rows[i]["date_only"] : i \in DOMAIN w.rows})
    IN  [i \in DOMAIN ds |-> DailyRow(w, ds[i])]

\* daily[daily["count"] >= min_points_per_day]
EnoughPoints(daily, min_points_per_day) ==
    SelectSeq(daily, LAMBDA r : r.count >= min_points_per_day)

\* mutant: sort_values("median") in ascending order
RECURSIVE SortAscending(_)
SortAscending(rows) ==
    IF rows = {} THEN {<<>>}
    ELSE UNION {{<<r>> \o s : s \in SortAscending(rows \ {r})} :
                  r \in {x \in rows : \A y \in rows : FLe(x.median, y.median)}}

\* sort_values("median", ascending=False): every order of the rows in which
\* the medians do not increase (the default sort kind is not stable, so rows
\* with equal medians come in any order)
RECURSIVE SortDescending(_)
SortDescending(rows) ==
    IF rows = {} THEN {<<>>}
    ELSE UNION {{<<r>> \o s : s \in SortDescending(rows \ {r})} :
                  r \in {x \in rows : \A y \in rows : FGe(x.median, y.median)}}

\* DataFrame.head(n), n negative included
HeadRows(s, n) ==
    LET k == IF n >= 0 THEN (IF n < Len(s) THEN n ELSE Len(s))
             ELSE (IF Len(s) + n > 0 THEN Len(s) + n ELSE 0)
    IN  SubSeq(s, 1, k)

\* sort_values(cfg.timestamp) of rows with distinct timestamps
RECURSIVE SortByTimestamp(_)
SortByTimestamp(s) ==
    IF s = <<>> THEN <<>>
    ELSE LET i == CHOOSE j \in DOMAIN s :
                      \A k \in DOMAIN s : s[j]["timestamp"] <= s[k]["timestamp"]
         IN  <<s[i]>> \o SortByTimestamp(
                 [k \in 1..(Len(s) - 1) |-> IF k < i THEN s[k] ELSE s[k + 1]])

EmptySelection == [clean_df |-> EmptyFrame, top |-> EmptyFrame]

\* the results the call can return: one per admissible order of the ranking
auto_select_clean_period(t, c, days, min_points_per_day) ==
    IF ~HasCol(t, "timestamp") THEN {EmptySelection}
    ELSE
    LET work == RankingSubset(calculate_pr(t, c))
        daily == EnoughPoints(DailyStats(work), min_points_per_day)
    IN  IF work.rows = <<>> THEN {EmptySelection}
        ELSE IF daily = <<>> THEN {EmptySelection}
        ELSE
        {LET top == HeadRows(sorted, days)
             selected_dates == {top[i].date_only : i \in DOMAIN top}
         IN  [clean_df |->
                 [cols |-> work.cols,
                  rows |-> SortByTimestamp(SelectSeq(work.rows,
                              LAMBDA r : r["date_only"] \in selected_dates))],
              top |-> [cols |-> {"date_only", "median", "count"}, rows |-> top]] :
           sorted \in SortDescending({daily[i] : i \in DOMAIN daily})}

(***************************************************************************)
(* SpecSelect: auto_select_clean_period called on a series                 *)
(***************************************************************************)
MaxRowsSelect == 4

SelectDays == 0..3

\* the readings of a day: (slot of the day, AC power, POA); one at dawn below
\* the minimum irradiance and four around noon
SelectReadings ==
    {<<10, F(90), F(150)>>, <<24, F(80), F(1000)>>, <<25, F(90), F(1000)>>,
     <<26, F(92), F(1000)>>, <<27, F(95), F(1000)>>}

\* every day misses one of the noon slots
SelectRows ==
    {[timestamp |-> SLOTS_PER_DAY * p[1] + p[2][1],
      ac_power |-> p[2][2], poa |-> p[2][3]] :
        p \in {q \in SelectDays \X SelectReadings : q[2][1] # 24 + q[1]}}

\* rows are listed by slot of the day and then by day, so that a table is in
\* general not in calendar order
RowRank(r) ==
    (r["timestamp"] % SLOTS_PER_DAY) * 100 + r["timestamp"] \div SLOTS_PER_DAY

RECURSIVE RankedSeqs(_, _)
RankedSeqs(rowset, n) ==
    IF n = 0 THEN {<<>>}
    ELSE LET shorter == RankedSeqs(rowset, n - 1)
             longest == {s \in shorter : Len(s) = n - 1}
         IN  shorter \cup
             {Append(p[1], p[2]) :
                p \in {q \in longest \X rowset :
                         \/ q[1] = <<>>
                         \/ RowRank(q[1][Len(q[1])]) < RowRank(q[2])}}

SelectTables ==
    {[cols |-> {"timestamp", "ac_power", "poa"}, rows |-> s] :
        s \in RankedSeqs(SelectRows, MaxRowsSelect)}
    \cup {[cols |-> {"ac_power", "poa"},
           rows |-> <<[ac_power |-> F(90), poa |-> F(1000)]>>]}

SelectDaysVals == {1, 2}

SelectMinPointsVals == {1, 2}

NoSelection == [clean_df |-> None, top |-> None]

InitSelect ==
    /\ pc = "auto_select_clean_period"
    /\ df \in SelectTables
    /\ cfg \in {[entry |-> "auto_select_clean_period", dc_size_kw |-> F(100),
                 days |-> n, min_points_per_day |-> m] :
                  n \in SelectDaysVals, m \in SelectMinPointsVals}
    /\ clean_df = None
    /\ l_df = None
    /\ l_clean = None
    /\ heap = <<>>
    /\ out = NoSelection
    /\ db = EmptyDb

CallAutoSelect ==
    /\ pc = "auto_select_clean_period"
    /\ out' \in auto_select_clean_period(df, cfg, cfg.days,
                                         cfg.min_points_per_day)
    /\ pc' = "returned"
    /\ UNCHANGED <<db, cfg, df, clean_df, l_df, l_clean, heap>>

NextSelect == CallAutoSelect

SpecSelect == InitSelect /\ [][NextSelect]_vars

(***************************************************************************)
(* Claims about auto_select_clean_period (SpecSelect)                      *)
(***************************************************************************)
Selected == pc = "returned" /\ HasCol(df, "timestamp")

\* the rows the ranking uses: POA at or above the minimum and a PR
RankingRowsOf(t) ==
    {i \in DOMAIN t.rows :
        /\ FGe(t.rows[i]["poa"], F(POA_MIN))
        /\ ~IsNaN(PrCell(t.rows[i], cfg))}

DateOfRow(t, i) == t.rows[i]["timestamp"] \div SLOTS_PER_DAY

PointCount(d) == Cardinality({i \in RankingRowsOf(df) : DateOfRow(df, i) = d})

QualifyingDates ==
    {d \in {DateOfRow(df, i) : i \in RankingRowsOf(df)} :
        PointCount(d) >= cfg.min_points_per_day}

DailyMedianPr(d) ==
    LET idx == AscendingDates({i \in RankingRowsOf(df) : DateOfRow(df, i) = d})
    IN  Median([k \in DOMAIN idx |-> PrCell(df.rows[idx[k]], cfg)])

SelectedDates == {out.top.rows[i].date_only : i \in DOMAIN out.top.rows}

MinOf(a, b) == IF a < b THEN a ELSE b

\* C11: the selected dates are min(N, number of qualifying days) qualifying
\* days, none of them with a lower daily median PR than a qualifying day left
\* out; the ranking table lists them by descending median; the clean table
\* holds rows of exactly those dates; with no qualifying day both returned
\* tables are empty.
C11_TopDaysSelected ==
    Selected =>
        /\ SelectedDates \subseteq QualifyingDates
        /\ Cardinality(SelectedDates)
              = MinOf(cfg.days, Cardinality(QualifyingDates))
        /\ \A d \in SelectedDates : \A e \in QualifyingDates \ SelectedDates :
              FGe(DailyMedianPr(d), DailyMedianPr(e))
        /\ \A i \in DOMAIN out.top.rows :
              /\ out.top.rows[i].median = DailyMedianPr(out.top.rows[i].date_only)
              /\ i > 1 => FGe(out.top.rows[i - 1].median, out.top.rows[i].median)
        /\ {DateOnly(out.clean_df.rows[i]["timestamp"]) :
               i \in DOMAIN out.clean_df.rows} = SelectedDates
        /\ QualifyingDates = {} => out = EmptySelection

\* the days 0..3 have the daily medians 0.90, 0.95, 0.80, 0.92, N = 2, and the
\* days 1 and 3 are selected
C11_Witness ==
    /\ Selected
    /\ cfg.days = 2
    /\ cfg.min_points_per_day = 1
    /\ QualifyingDates = 0..3
    /\ DailyMedianPr(0) = Num(90, 100)
    /\ DailyMedianPr(1) = Num(95, 100)
    /\ DailyMedianPr(2) = Num(80, 100)
    /\ DailyMedianPr(3) = Num(92, 100)
    /\ SelectedDates = {1, 3}

\* the rows of a table without the columns the call added
InputRowsOf(t) ==
    {[c \in {"timestamp", "ac_power", "poa"} |-> t.rows[i][c]] :
        i \in DOMAIN t.rows}

\* C12: the returned clean table holds every row of the input series whose
\* calendar date is a selected date, the rows below the minimum irradiance
\* or without a PR included.
C12_CleanIsUnionOfAllRows ==
    Selected =>
        InputRowsOf(out.clean_df)
            = {r \in InputRowsOf(df) : DateOnly(r["timestamp"]) \in SelectedDates}

(***************************************************************************)
(* Shading_analysis.py: compare_profiles and summarise_shading             *)
(*                                                                         *)
(* A profile is the table build_profile returns: one row per (emigId,      *)
(* hour_float) with I_norm_median and n_points; hour_float is a float cell *)
(* and n_points an integer.                                                *)
(***************************************************************************)
\* DataFrame.rename(columns={a: b}); a table without column a is unchanged
RenameCol(t, a, b) ==
    IF ~HasCol(t, a) THEN t
    ELSE [cols |-> (t.cols \ {a}) \cup {b},
          rows |-> [i \in DOMAIN t.rows |->
                      [x \in (t.cols \ {a}) \cup {b} |->
                          IF x = b THEN t.rows[i][a] ELSE t.rows[i][x]]]]

RECURSIVE Concat(_)
Concat(ss) == IF ss = <<>> THEN <<>> ELSE Head(ss) \o Concat(Tail(ss))

JoinedRow(l, r) ==
    [x \in (DOMAIN l) \cup (DOMAIN r) |-> IF x \in DOMAIN l THEN l[x] ELSE r[x]]

\* mutant: how="left", the summer slots without a winter slot are kept
MergeKeepLeft(s, w) ==
    [cols |-> s.cols \cup w.cols,
     rows |-> Concat([i \in DOMAIN s.rows |->
                 LET m == SelectSeq(w.rows, LAMBDA r :
                              /\ r["emigId"] = s.rows[i]["emigId"]
                              /\ r["hour_float"] = s.rows[i]["hour_float"])
                 IN  IF m = <<>>
                     THEN <<[x \in s.cols \cup w.cols |->
                               IF x \in s.cols THEN s.rows[i][x]
                               ELSE IF x = "n_winter" THEN 0 ELSE NaN]>>
                     ELSE [k \in DOMAIN m |-> JoinedRow(s.rows[i], m[k])]])]

\* s.merge(w, on=["emigId", "hour_float"], how="inner"): one row per pair of
\* a left and a right row with the same key, in the order of the left rows
MergeInner(s, w) ==
    [cols |-> s.cols \cup w.cols,
     rows |-> Concat([i \in DOMAIN s.rows |->
                 LET m == SelectSeq(w.rows, LAMBDA r :
                              /\ r["emigId"] = s.rows[i]["emigId"]
                              /\ r["hour_float"] = s.rows[i]["hour_float"])
                 IN  [k \in DOMAIN m |-> JoinedRow(s.rows[i], m[k])]])]

\* np.where(I_summer > 0, I_winter / I_summer, nan)
RatioWinterToSummer(r) ==
    IF FGt(r["I_summer"], F(0)) THEN FDiv(r["I_winter"], r["I_summer"]) ELSE NaN

\* merged["delta"] = merged["I_winter"] - merged["I_summer"]
Delta(r) == FSub(r["I_winter"], r["I_summer"])

\* merge raises KeyError when a key column is missing on either side
MergeRaises(s, w) ==
    \/ ~HasCol(s, "emigId") \/ ~HasCol(s, "hour_float")
    \/ ~HasCol(w, "emigId") \/ ~HasCol(w, "hour_float")

compare_profiles(prof_summer, prof_winter) ==
    LET s == RenameCol(RenameCol(prof_summer, "I_norm_median", "I_summer"),
                       "n_points", "n_summer")
        w == RenameCol(RenameCol(prof_winter, "I_norm_median", "I_winter"),
                       "n_points", "n_winter")
        merged == MergeInner(s, w)
        ratios == SetCol(merged, "ratio_winter_to_summer",
                     [i \in DOMAIN merged.rows |->
                         RatioWinterToSummer(merged.rows[i])])
    IN  SetCol(ratios, "delta",
               [i \in DOMAIN ratios.rows |-> Delta(ratios.rows[i])])

WINDOW_START_HOUR == 9

WINDOW_END_HOUR == 15

\* comp[(comp["hour_float"] >= 9.0) & (comp["hour_float"] <= 15.0)]
InWindow(r) ==
    /\ FGe(r["hour_float"], F(WINDOW_START_HOUR))
    /\ FLe(r["hour_float"], F(WINDOW_END_HOUR))

\* mutant: the 0.7 boundary belongs to the class below
classify_strict(ratio) ==
    IF IsNaN(ratio) THEN "insufficient data"
    ELSE IF FGe(ratio, Num(95, 100)) THEN "no shading"
    ELSE IF FGe(ratio, Num(85, 100)) THEN "mild shading"
    ELSE IF FGt(ratio, Num(7, 10)) THEN "moderate shading"
    ELSE "severe shading"

classify(ratio) ==
    IF IsNaN(ratio) THEN "insufficient data"
    ELSE IF FGe(ratio, Num(95, 100)) THEN "no shading"
    ELSE IF FGe(ratio, Num(85, 100)) THEN "mild shading"
    ELSE IF FGe(ratio, Num(7, 10)) THEN "moderate shading"
    ELSE "severe shading"

\* the device ids of the model in the order groupby sorts them
EmigIds == <<"INV:1", "INV:2", "INV:3">>

\* Series.unique(): the values in order of first appearance
RECURSIVE Unique(_)
Unique(s) ==
    IF s = <<>> THEN <<>>
    ELSE LET u == Unique(SubSeq(s, 1, Len(s) - 1))
         IN  IF \E i \in DOMAIN u : u[i] = s[Len(s)] THEN u
             ELSE Append(u, s[Len(s)])

\* np.where(I_summer > I_winter, I_summer - I_winter, 0) * n_winter * 0.5 / 1000
EnergyLossPerSlot(r) ==
    FDiv(FMul(FMul(IF FGt(r["I_summer"], r["I_winter"])
                   THEN FSub(r["I_summer"], r["I_winter"]) ELSE F(0),
                   F(r["n_winter"])),
              Num(1, 2)),
         F(1000))

RECURSIVE SumInts(_)
SumInts(s) == IF s = <<>> THEN 0 ELSE Head(s) + SumInts(Tail(s))

\* the summary row of a device with rows in the window
DeviceSummary(emigid, sub) ==
    LET med == Median([i \in DOMAIN sub |-> sub[i]["ratio_winter_to_summer"]])
    IN  [emigId |-> emigid,
         median_ratio |-> med,
         shading_loss_pct |->
             IF IsNaN(med) THEN NaN ELSE FMul(FSub(F(1), med), F(100)),
         energy_loss_kwh_per_Wm2 |->
             SumSkipNaN([i \in DOMAIN sub |-> EnergyLossPerSlot(sub[i])]),
         winter_data_points |-> SumInts([i \in DOMAIN sub |-> sub[i]["n_winter"]]),
         avg_summer_power_per_irr |->
             Mean(DropNaN([i \in DOMAIN sub |-> sub[i]["I_summer"]])),
         avg_winter_power_per_irr |->
             Mean(DropNaN([i \in DOMAIN sub |-> sub[i]["I_winter"]])),
         n_hours |-> Len(sub),
         classification |-> classify(med)]

\* the summary row of a device of comp without a row in the window
NoDataSummary(emigid) ==
    [emigId |-> emigid, median_ratio |-> NaN, shading_loss_pct |-> NaN,
     energy_loss_kwh_per_Wm2 |-> NaN, winter_data_points |-> 0,
     avg_summer_power_per_irr |-> NaN, avg_winter_power_per_irr |-> NaN,
     n_hours |-> 0, classification |-> "insufficient data"]

\* the rows of the summary table, in order
summarise_shading(comp) ==
    LET mid == SelectSeq(comp.rows, LAMBDA r : InWindow(r))
        groups == SelectSeq(EmigIds, LAMBDA e :
                      \E i \in DOMAIN mid : mid[i]["emigId"] = e)
        rows == [g \in DOMAIN groups |->
                    DeviceSummary(groups[g],
                        SelectSeq(mid, LAMBDA r : r["emigId"] = groups[g]))]
        all_inverters == Unique([i \in DOMAIN comp.rows |-> comp.rows[i]["emigId"]])
        missing == SelectSeq(all_inverters, LAMBDA e :
                       \A g \in DOMAIN rows : rows[g].emigId # e)
    IN  rows \o [k \in DOMAIN missing |-> NoDataSummary(missing[k])]

(***************************************************************************)
(* SpecCompare: compare_profiles called on two seasonal profiles and       *)
(* summarise_shading on its result                                         *)
(***************************************************************************)
MaxRowsProfile == 2

\* the (emigId, hour_float) slots of the profiles
ProfileSlots ==
    {<<"INV:1", Num(17, 2)>>, <<"INV:1", F(9)>>, <<"INV:1", F(15)>>,
     <<"INV:1", Num(31, 2)>>, <<"INV:2", F(9)>>, <<"INV:2", F(16)>>}

SummerValues == {F(1)}

WinterValues == {Num(6, 10), Num(7, 10), Num(85, 100), Num(95, 100)}

ProfileRow(slot, v) ==
    [emigId |-> slot[1], hour_float |-> slot[2], I_norm_median |-> v,
     n_points |-> 3]

\* a summer bin of zero efficiency, which a profile built from positive power
\* cannot hold but compare_profiles guards against
ZeroSummerRow == ProfileRow(<<"INV:2", F(9)>>, F(0))

SummerRows ==
    {ProfileRow(s, v) : s \in ProfileSlots, v \in SummerValues}
    \cup {ZeroSummerRow}

WinterRows == {ProfileRow(s, v) : s \in ProfileSlots, v \in WinterValues}

EmigIdRank(e) == CHOOSE i \in DOMAIN EmigIds : EmigIds[i] = e

\* groupby lists the bins by emigId and then by hour_float, one row per bin
SlotBefore(a, b) ==
    \/ EmigIdRank(a["emigId"]) < EmigIdRank(b["emigId"])
    \/ /\ a["emigId"] = b["emigId"]
       /\ FLt(a["hour_float"], b["hour_float"])

RECURSIVE ProfileSeqs(_, _)
ProfileSeqs(rowset, n) ==
    IF n = 0 THEN {<<>>}
    ELSE LET shorter == ProfileSeqs(rowset, n - 1)
             longest == {s \in shorter : Len(s) = n - 1}
         IN  shorter \cup
             {Append(p[1], p[2]) :
                p \in {q \in longest \X rowset :
                         \/ q[1] = <<>>
                         \/ SlotBefore(q[1][Len(q[1])], q[2])}}

ProfileCols == {"emigId", "hour_float", "I_norm_median", "n_points"}

ProfilesOf(rowset) ==
    {[cols |-> ProfileCols, rows |-> s] : s \in ProfileSeqs(rowset, MaxRowsProfile)}
    \cup {EmptyFrame}

NoComparison == [raised |-> "", comp |-> None, summary |-> <<>>]

InitCompare ==
    /\ pc = "compare_profiles"
    /\ df \in ProfilesOf(SummerRows)
    /\ clean_df \in ProfilesOf(WinterRows)
    /\ cfg = [entry |-> "compare_profiles"]
    /\ l_df = None
    /\ l_clean = None
    /\ heap = <<>>
    /\ out = NoComparison
    /\ db = EmptyDb

\* df is prof_summer and clean_df is prof_winter
CallCompareProfiles ==
    /\ pc = "compare_profiles"
    /\ IF MergeRaises(df, clean_df)
       THEN /\ out' = [out EXCEPT !.raised = "KeyError"]
            /\ pc' = "raised"
       ELSE /\ out' = [out EXCEPT !.comp = compare_profiles(df, clean_df)]
            /\ pc' = "summarise_shading"
    /\ UNCHANGED <<db, cfg, df, clean_df, l_df, l_clean, heap>>

CallSummariseShading ==
    /\ pc = "summarise_shading"
    /\ out' = [out EXCEPT !.summary = summarise_shading(out.comp)]
    /\ pc' = "returned"
    /\ UNCHANGED <<db, cfg, df, clean_df, l_df, l_clean, heap>>

NextCompare == CallCompareProfiles \/ CallSummariseShading

SpecCompare == InitCompare /\ [][NextCompare]_vars

(***************************************************************************)
(* Claims about compare_profiles and summarise_shading (SpecCompare)       *)
(***************************************************************************)
Compared == pc \in {"summarise_shading", "returned"}

Summarised == pc = "returned"

SlotKey(r) == <<r["emigId"], r["hour_float"]>>

SlotKeys(t) == {SlotKey(t.rows[i]) : i \in DOMAIN t.rows}

\* the comparison rows of a device between 09:00 and 15:00, both included
WindowRowsOf(e) ==
    SelectSeq(out.comp.rows, LAMBDA r :
        /\ r["emigId"] = e
        /\ ~FLt(r["hour_float"], F(9))
        /\ ~FGt(r["hour_float"], F(15)))

ShadingClassOf(m) ==
    IF IsNaN(m) THEN "insufficient data"
    ELSE IF ~FLt(m, Num(95, 100)) THEN "no shading"
    ELSE IF ~FLt(m, Num(85, 100)) THEN "mild shading"
    ELSE IF ~FLt(m, Num(70, 100)) THEN "moderate shading"
    ELSE "severe shading"

\* C13: the summary row of a device with rows in the 09:00-15:00 window
\* (both ends included) carries the median of the ratios of exactly those
\* rows and the class of that median: >= 0.95 no shading, >= 0.85 mild,
\* >= 0.70 moderate, below severe, NaN insufficient data; a median of exactly
\* 0.70 is moderate.
C13_MedianRatioClassified ==
    Summarised =>
        \A k \in DOMAIN out.summary :
            LET row == out.summary[k]
                w == WindowRowsOf(row.emigId)
            IN  /\ row.n_hours = Len(w)
                /\ w # <<>> =>
                      row.median_ratio
                        = Median([i \in DOMAIN w |-> w[i]["ratio_winter_to_summer"]])
                /\ row.classification = ShadingClassOf(row.median_ratio)
                /\ row.median_ratio = Num(7, 10)
                      => row.classification = "moderate shading"

\* baseline 1.0 and test 0.7 at the slots 9.0 and 15.0 of INV:1
C13_Witness ==
    /\ Summarised
    /\ Len(out.comp.rows) = 2
    /\ \A i \in DOMAIN out.comp.rows :
          /\ out.comp.rows[i]["emigId"] = "INV:1"
          /\ out.comp.rows[i]["hour_float"] \in {F(9), F(15)}
          /\ out.comp.rows[i]["I_summer"] = F(1)
          /\ out.comp.rows[i]["I_winter"] = Num(7, 10)
    /\ Len(out.summary) = 1
    /\ out.summary[1].median_ratio = Num(7, 10)
    /\ out.summary[1].n_hours = 2
    /\ out.summary[1].classification = "moderate shading"

\* C14: for profiles that carry the key columns, the comparison table has a
\* row for a key exactly when both profiles contain the key, and one row per
\* key.
C14_InnerJoinOnSlot ==
    /\ Compared =>
          /\ SlotKeys(out.comp) = SlotKeys(df) \cap SlotKeys(clean_df)
          /\ \A i, j \in DOMAIN out.comp.rows :
                SlotKey(out.comp.rows[i]) = SlotKey(out.comp.rows[j]) => i = j
    /\ pc = "raised" => df = EmptyFrame \/ clean_df = EmptyFrame

\* summer at 9.0 and winter only at another hour: no row for that device,
\* while a slot both seasons hold is kept
C14_Witness ==
    /\ Compared
    /\ \E i \in DOMAIN df.rows : SlotKey(df.rows[i]) = <<"INV:2", F(9)>>
    /\ \E i \in DOMAIN clean_df.rows :
          SlotKey(clean_df.rows[i]) = <<"INV:2", F(16)>>
    /\ \E i \in DOMAIN df.rows : SlotKey(df.rows[i]) = <<"INV:1", F(9)>>
    /\ SlotKeys(out.comp) = {<<"INV:1", F(9)>>}

DevicesOf(t) == {t.rows[i]["emigId"] : i \in DOMAIN t.rows}

\* C15: every device of the two profiles without a comparison slot in the
\* window appears in the summary exactly once, with a NaN median ratio and
\* the insufficient-data class (checked on the non-empty comparison tables,
\* the only ones the callers summarise).
C15_NoSlotDevicesListed ==
    Summarised /\ out.comp.rows # <<>> =>
        \A e \in DevicesOf(df) \cup DevicesOf(clean_df) :
            WindowRowsOf(e) = <<>> =>
                /\ Cardinality({k \in DOMAIN out.summary :
                                   out.summary[k].emigId = e}) = 1
                /\ \A k \in DOMAIN out.summary :
                      out.summary[k].emigId = e =>
                          /\ IsNaN(out.summary[k].median_ratio)
                          /\ out.summary[k].classification = "insufficient data"

\* C16: delta is the baseline-season (summer) efficiency minus the
\* test-season (winter) efficiency on every row of the comparison table.
C16_DeltaBaselineMinusTest ==
    Compared =>
        \A i \in DOMAIN out.comp.rows :
            out.comp.rows[i]["delta"]
              = FSub(out.comp.rows[i]["I_summer"], out.comp.rows[i]["I_winter"])

(***************************************************************************)
(* Shading_analysis.py: join_with_irradiance and build_profile             *)
(*                                                                         *)
(* dt counts half-hour slots since the first midnight of the season.       *)
(***************************************************************************)
IRRADIANCE_MIN == 100

MIN_POINTS_PER_HOUR == 3

\* Settings()
DefaultSettings ==
    [entry |-> "join_with_irradiance", irradiance_min |-> F(IRRADIANCE_MIN),
     min_points_per_hour |-> MIN_POINTS_PER_HOUR]

\* df["dt"].dt.hour + df["dt"].dt.minute / 60.0
HourFloat(dt) ==
    FAdd(F((dt % SLOTS_PER_DAY) \div 2), FDiv(F(30 * (dt % 2)), F(60)))

\* df_inv.merge(w, on="dt", how="inner") with w = df_weather[["dt", irr]]
MergeOnDt(df_inv, df_weather) ==
    [cols |-> df_inv.cols \cup {"irr"},
     rows |-> Concat([i \in DOMAIN df_inv.rows |->
                 LET m == SelectSeq(df_weather.rows, LAMBDA r :
                              r["dt"] = df_inv.rows[i]["dt"])
                 IN  [k \in DOMAIN m |->
                        [x \in df_inv.cols \cup {"irr"} |->
                            IF x = "irr" THEN m[k]["poaIrradiance"]
                            ELSE df_inv.rows[i][x]]]])]

\* mutant: the mask is not applied
KeepAllRows(t, keep) == t

\* m[mask]
FilterRows(t, keep) == [cols |-> t.cols, rows |-> keep]

join_with_irradiance(df_inv, df_weather, c) ==
    LET m0 == MergeOnDt(df_inv, df_weather)
        m1 == FilterRows(m0, SelectSeq(m0.rows, LAMBDA r :
                  ~IsNaN(r["irr"]) /\ FGe(r["irr"], c.irradiance_min)))
        m2 == FilterRows(m1, SelectSeq(m1.rows, LAMBDA r :
                  FGt(r["apparentPower"], F(0))))
    IN  IF m1.rows = <<>> THEN m1
        ELSE IF m2.rows = <<>> THEN m2
        ELSE SetCol(m2, "I_norm",
                 [i \in DOMAIN m2.rows |->
                     FDiv(m2.rows[i]["apparentPower"], m2.rows[i]["irr"])])

\* the group keys (emigId, hour_float) in the order groupby lists them
RECURSIVE SortedBins(_)
SortedBins(S) ==
    IF S = {} THEN <<>>
    ELSE LET b == CHOOSE x \in S : \A y \in S \ {x} :
                      \/ EmigIdRank(x[1]) < EmigIdRank(y[1])
                      \/ x[1] = y[1] /\ FLt(x[2], y[2])
         IN  <<b>> \o SortedBins(S \ {b})

\* mutant: the bins are not filtered on their number of points
EnoughPointsPerHourAny(n_points, c) == n_points >= 0

\* g[g["n_points"] >= cfg.min_points_per_hour]
EnoughPointsPerHour(n_points, c) == n_points >= c.min_points_per_hour

build_profile(m, c) ==
    IF m.rows = <<>> THEN EmptyFrame
    ELSE
    LET bins == SortedBins({<<m.rows[i]["emigId"], m.rows[i]["hour_float"]>> :
                              i \in DOMAIN m.rows})
        g == [b \in DOMAIN bins |->
                LET rs == SelectSeq(m.rows, LAMBDA r :
                              /\ r["emigId"] = bins[b][1]
                              /\ r["hour_float"] = bins[b][2])
                IN  [emigId |-> bins[b][1], hour_float |-> bins[b][2],
                     I_norm_median |-> Median([i \in DOMAIN rs |-> rs[i]["I_norm"]]),
                     n_points |-> Len(DropNaN([i \in DOMAIN rs |-> rs[i]["I_norm"]]))]]
    IN  [cols |-> ProfileCols,
         rows |-> SelectSeq(g, LAMBDA r : EnoughPointsPerHour(r.n_points, c))]

(***************************************************************************)
(* SpecShading: join_with_irradiance, build_profile and compare_profiles   *)
(* run on a summer and a winter dataset of one inverter                    *)
(***************************************************************************)
MaxReadingsPerSlot == 3

\* the slots 10:00 and 11:00
SeasonSlots == <<20, 22>>

\* (apparentPower, poaIrradiance) of the readings of a slot
SummerReadings == {<<F(400), F(800)>>}

\* lower normalized power, higher normalized power, irradiance below the
\* minimum, no power
WinterReadings ==
    {<<F(280), F(700)>>, <<F(480), F(800)>>, <<F(280), F(50)>>, <<F(0), F(700)>>}

\* per slot: the number of days with a reading at the slot and the reading
SlotChoices(readings) ==
    [DOMAIN SeasonSlots ->
        [count : 0..MaxReadingsPerSlot, reading : readings]]

\* the timestamps of a season in time order
SeasonDts(choice) ==
    Concat([d \in 1..MaxReadingsPerSlot |->
        LET present == SelectSeq([k \in DOMAIN SeasonSlots |-> k],
                                 LAMBDA k : choice[k].count >= d)
        IN  [j \in DOMAIN present |->
               <<SLOTS_PER_DAY * (d - 1) + SeasonSlots[present[j]], present[j]>>]])

\* the inverter table and the weather table load_and_prepare hands over
SeasonTables(choice) ==
    LET dts == SeasonDts(choice)
    IN  [inv |->
            [cols |-> {"dt", "emigId", "apparentPower", "hour_float"},
             rows |-> [i \in DOMAIN dts |->
                         [dt |-> dts[i][1], emigId |-> "INV:1",
                          apparentPower |-> choice[dts[i][2]].reading[1],
                          hour_float |-> HourFloat(dts[i][1])]]],
         weather |->
            [cols |-> {"dt", "poaIrradiance"},
             rows |-> [i \in DOMAIN dts |->
                         [dt |-> dts[i][1],
                          poaIrradiance |-> choice[dts[i][2]].reading[2]]]]]

MinPointsVals == {1, MIN_POINTS_PER_HOUR}

InitShading ==
    /\ pc = "join_summer"
    /\ df \in {SeasonTables(ch) : ch \in SlotChoices(SummerReadings)}
    /\ clean_df \in {SeasonTables(ch) : ch \in SlotChoices(WinterReadings)}
    /\ cfg \in {[DefaultSettings EXCEPT !.min_points_per_hour = n] :
                  n \in MinPointsVals}
    /\ l_df = None
    /\ l_clean = None
    /\ heap = <<>>
    /\ out = NoComparison
    /\ db = EmptyDb

\* ms = join_with_irradiance(inv_s, w_s, cfg); mw likewise
CallJoinWithIrradiance ==
    \/ /\ pc = "join_summer"
       /\ l_df' = join_with_irradiance(df.inv, df.weather, cfg)
       /\ pc' = "join_winter"
       /\ UNCHANGED <<db, cfg, df, clean_df, l_clean, heap, out>>
    \/ /\ pc = "join_winter"
       /\ l_clean' = join_with_irradiance(clean_df.inv, clean_df.weather, cfg)
       /\ pc' = "profile_summer"
       /\ UNCHANGED <<db, cfg, df, clean_df, l_df, heap, out>>

\* prof_s = build_profile(ms, cfg); prof_w likewise
CallBuildProfile ==
    \/ /\ pc = "profile_summer"
       /\ l_df' = build_profile(l_df, cfg)
       /\ pc' = "profile_winter"
       /\ UNCHANGED <<db, cfg, df, clean_df, l_clean, heap, out>>
    \/ /\ pc = "profile_winter"
       /\ l_clean' = build_profile(l_clean, cfg)
       /\ pc' = "compare"
       /\ UNCHANGED <<db, cfg, df, clean_df, l_df, heap, out>>

\* comp = compare_profiles(prof_s, prof_w, cfg)
CallCompareSeasons ==
    /\ pc = "compare"
    /\ IF MergeRaises(l_df, l_clean)
       THEN /\ out' = [out EXCEPT !.raised = "KeyError"]
            /\ pc' = "raised"
       ELSE /\ out' = [out EXCEPT !.comp = compare_profiles(l_df, l_clean)]
            /\ pc' = "returned"
    /\ UNCHANGED <<db, cfg, df, clean_df, l_df, l_clean, heap>>

NextShading == CallJoinWithIrradiance \/ CallBuildProfile \/ CallCompareSeasons

SpecShading == InitShading /\ [][NextShading]_vars

(***************************************************************************)
(* Claims about the shading pipeline (SpecShading)                         *)
(***************************************************************************)
PipelineDone == pc \in {"returned", "raised"}

\* the irradiance the weather table holds at the timestamp of a reading
IrradianceAt(season, i) ==
    LET w == SelectSeq(season.weather.rows,
                       LAMBDA r : r["dt"] = season.inv.rows[i]["dt"])
    IN  IF w = <<>> THEN NaN ELSE w[1]["poaIrradiance"]

\* the readings of a time-of-day slot with irradiance >= irradiance_min and
\* power > 0
ValidReadings(season, h) ==
    {i \in DOMAIN season.inv.rows :
        /\ season.inv.rows[i]["hour_float"] = h
        /\ ~IsNaN(IrradianceAt(season, i))
        /\ ~FLt(IrradianceAt(season, i), F(100))
        /\ FGt(season.inv.rows[i]["apparentPower"], F(0))}

SeasonHours(season) ==
    {season.inv.rows[i]["hour_float"] : i \in DOMAIN season.inv.rows}

NormalizedPower(season, i) ==
    FDiv(season.inv.rows[i]["apparentPower"], IrradianceAt(season, i))

\* a single valid reading at every slot of the season, and at least one slot
SingleValidReadings(season) ==
    /\ season.inv.rows # <<>>
    /\ \A h \in SeasonHours(season) :
          /\ Cardinality(ValidReadings(season, h)) = 1
          /\ Cardinality({i \in DOMAIN season.inv.rows :
                             season.inv.rows[i]["hour_float"] = h}) = 1

WinterLower ==
    \A h \in SeasonHours(df) :
        \A i \in ValidReadings(df, h) : \A j \in ValidReadings(clean_df, h) :
            FLt(NormalizedPower(clean_df, j), NormalizedPower(df, i))

\* the scenario of the test: single valid readings, the same slots in both
\* seasons, lower normalized power in winter
SmallSample ==
    /\ SingleValidReadings(df)
    /\ SingleValidReadings(clean_df)
    /\ SeasonHours(df) = SeasonHours(clean_df)
    /\ WinterLower

CompRatios ==
    {out.comp.rows[i]["ratio_winter_to_summer"] : i \in DOMAIN out.comp.rows}

ProfiledHours(season) ==
    {h \in SeasonHours(season) :
        Cardinality(ValidReadings(season, h)) >= cfg.min_points_per_hour}

HasValidReading(season) ==
    \E h \in SeasonHours(season) : ValidReadings(season, h) # {}

NoneStr == "<None>"

NoneFloat == [k |-> "none", n |-> 0, d |-> 1]

\* json.dumps(v): the JSON text of v
JsonDumps(v) == [json |-> v]

\* json.loads(text)
JsonLoads(text) == text.json

\* INSERT ... raises IntegrityError on a NULL in a NOT NULL column
NotNullViolated(plant_uid) == plant_uid = NoneStr

\* mutant: ON CONFLICT(alias) DO UPDATE leaves dc_size_kw as it was
UpsertPlantKeepDc(plants, alias, plant_uid, inverter_ids, weather_id, dc_size_kw) ==
    LET old == {r \in plants : r.alias = alias}
    IN  (plants \ old)
        \cup {[alias |-> alias, plant_uid |-> plant_uid,
               inverter_ids |-> JsonDumps(inverter_ids),
               weather_id |-> weather_id,
               dc_size_kw |-> IF old = {} THEN dc_size_kw
                              ELSE (CHOOSE r \in old : TRUE).dc_size_kw]}

\* INSERT INTO plants ... ON CONFLICT(alias) DO UPDATE SET every other column
UpsertPlant(plants, alias, plant_uid, inverter_ids, weather_id, dc_size_kw) ==
    (plants \ {r \in plants : r.alias = alias})
    \cup {[alias |-> alias, plant_uid |-> plant_uid,
           inverter_ids |-> JsonDumps(inverter_ids),
           weather_id |-> weather_id, dc_size_kw |-> dc_size_kw]}

\* PlantStore.load: the dict of the row of the alias, or None
NoPlant ==
    [found |-> FALSE, alias |-> NoneStr, plant_uid |-> NoneStr,
     inverter_ids |-> <<>>, weather_id |-> NoneStr, dc_size_kw |-> NoneFloat]

PlantStoreLoad(plants, alias) ==
    LET rows == {r \in plants : r.alias = alias}
    IN  IF rows = {} THEN NoPlant
        ELSE LET row == CHOOSE r \in rows : TRUE
             IN  [found |-> TRUE, alias |-> alias, plant_uid |-> row.plant_uid,
                  inverter_ids |-> JsonLoads(row.inverter_ids),
                  weather_id |-> row.weather_id, dc_size_kw |-> row.dc_size_kw]

\* PlantStore.import_many: the table after the statements of the loop, and
\* whether one of them raised (the connection is then closed uncommitted)
RECURSIVE ImportRows(_, _)
ImportRows(plants, records) ==
    IF records = <<>> THEN [raised |-> FALSE, plants |-> plants]
    ELSE LET rec == Head(records)
         IN  IF NotNullViolated(rec.plant_uid)
             THEN [raised |-> TRUE, plants |-> plants]
             ELSE ImportRows(UpsertPlant(plants, rec.alias, rec.plant_uid,
                                 rec.inverter_ids, rec.weather_id, rec.dc_size_kw),
                             Tail(records))

(***************************************************************************)
(* SpecPlants: save, load, delete and import_many called in any order      *)
(***************************************************************************)
MaxRecords == 2

Aliases == {"alias1", "alias2"}

\* (inverter_ids, weather_id, dc_size_kw)
PlantDetails ==
    {<<<<>>, NoneStr, NoneFloat>>, <<<<"INV:1">>, NoneStr, NoneFloat>>,
     <<<<"INV:1">>, "WETH:1", F(123)>>}

SavePlantUids == {"ERS:00001", "ERS:00002"}

\* the dicts of an import file after rec.get(..) filled the missing keys; a
\* null plant_uid violates NOT NULL
ImportRecords ==
    {[alias |-> a, plant_uid |-> x[1], inverter_ids |-> x[2][1],
      weather_id |-> x[2][2], dc_size_kw |-> x[2][3]] :
        a \in Aliases,
        x \in {<<"ERS:00001", <<<<>>, NoneStr, NoneFloat>>>>,
               <<"ERS:00001", <<<<"INV:1">>, "WETH:1", F(123)>>>>,
               <<NoneStr, <<<<>>, NoneStr, NoneFloat>>>>}}

NoCall == [call |-> "", alias |-> NoneStr, records |-> <<>>, raised |-> "",
           result |-> NoPlant, deleted |-> FALSE]

InitPlants ==
    /\ pc = "idle"
    /\ cfg = [entry |-> "PlantStore"]
    /\ df = None
    /\ clean_df = None
    /\ l_df = None
    /\ l_clean = None
    /\ heap = <<>>
    /\ out = NoCall
    /\ db = EmptyDb

PlantStoreSave ==
    \E a \in Aliases, u \in SavePlantUids, x \in PlantDetails :
        /\ db' = [db EXCEPT !.plants = UpsertPlant(@, a, u, x[1], x[2], x[3])]
        /\ out' = [NoCall EXCEPT !.call = "save", !.alias = a,
                      !.records = <<[alias |-> a, plant_uid |-> u,
                                     inverter_ids |-> x[1], weather_id |-> x[2],
                                     dc_size_kw |-> x[3]]>>]
        /\ UNCHANGED <<pc, cfg, df, clean_df, l_df, l_clean, heap>>

PlantStoreLoadCall ==
    \E a \in Aliases :
        /\ out' = [NoCall EXCEPT !.call = "load", !.alias = a,
                      !.result = PlantStoreLoad(db.plants, a)]
        /\ UNCHANGED <<pc, db, cfg, df, clean_df, l_df, l_clean, heap>>

PlantStoreDelete ==
    \E a \in Aliases :
        /\ db' = [db EXCEPT !.plants = {r \in @ : r.alias # a}]
        /\ out' = [NoCall EXCEPT !.call = "delete", !.alias = a,
                      !.deleted = Cardinality({r \in db.plants : r.alias = a}) > 0]
        /\ UNCHANGED <<pc, cfg, df, clean_df, l_df, l_clean, heap>>

PlantStoreImportMany ==
    \E records \in UNION {[1..k -> ImportRecords] : k \in 0..MaxRecords} :
        LET done == ImportRows(db.plants, records)
        IN  /\ db' = IF done.raised THEN db ELSE [db EXCEPT !.plants = done.plants]
            /\ out' = [NoCall EXCEPT !.call = "import_many", !.records = records,
                          !.raised = IF done.raised THEN "IntegrityError" ELSE ""]
            /\ UNCHANGED <<pc, cfg, df, clean_df, l_df, l_clean, heap>>

NextPlants ==
    \/ PlantStoreSave
    \/ PlantStoreLoadCall
    \/ PlantStoreDelete
    \/ PlantStoreImportMany

SpecPlants == InitPlants /\ [][NextPlants]_vars

(***************************************************************************)
(* Claims about the plant registry (SpecPlants)                            *)
(***************************************************************************)
\* what load returns for a saved or imported record
LoadedFrom(rec) ==
    [found |-> TRUE, alias |-> rec.alias, plant_uid |-> rec.plant_uid,
     inverter_ids |-> rec.inverter_ids, weather_id |-> rec.weather_id,
     dc_size_kw |-> rec.dc_size_kw]

\* the last record of a batch for an alias
LastRecordFor(records, a) ==
    records[CHOOSE i \in DOMAIN records :
                /\ records[i].alias = a
                /\ \A j \in DOMAIN records : records[j].alias = a => j <= i]

OneRowPerAlias ==
    \A a \in Aliases : Cardinality({r \in db.plants : r.alias = a}) <= 1

\* one call of the store, from the state before it to the state after it
RegistryStep ==
    /\ out'.call \in {"save", "import_many"} /\ out'.raised = "" =>
          \A a \in Aliases :
              PlantStoreLoad(db'.plants, a)
                = IF \E i \in DOMAIN out'.records : out'.records[i].alias = a
                  THEN LoadedFrom(LastRecordFor(out'.records, a))
                  ELSE PlantStoreLoad(db.plants, a)
    /\ out'.raised # "" => db' = db
    /\ out'.call = "delete" =>
          /\ out'.deleted = PlantStoreLoad(db.plants, out'.alias).found
          /\ \A a \in Aliases :
                PlantStoreLoad(db'.plants, a)
                  = IF a = out'.alias THEN NoPlant ELSE PlantStoreLoad(db.plants, a)
    /\ out'.call = "load" =>
          /\ db' = db
          /\ out'.result = PlantStoreLoad(db.plants, out'.alias)

\* C18: the registry holds at most one record per alias; after a save or an
\* import load(alias) returns the fields of the last record given for the
\* alias and every other alias is as before; after a delete load returns
\* None for the alias, and delete returns True exactly when the alias
\* existed; an alias never saved is not found.
C18_RegistryIsMap ==
    /\ \A a \in Aliases : ~PlantStoreLoad(EmptyDb.plants, a).found
    /\ [](pc = "idle" => OneRowPerAlias)
    /\ [][pc = "idle" => RegistryStep]_vars

\* a batch whose second record replaces every field of its first one
C18_Witness ==
    /\ out.call = "import_many"
    /\ out.raised = ""
    /\ Len(out.records) = 2
    /\ out.records[1].alias = "alias1"
    /\ out.records[2].alias = "alias1"
    /\ out.records[1].dc_size_kw = F(123)
    /\ out.records[2].dc_size_kw = NoneFloat
    /\ PlantStoreLoad(db.plants, "alias1") = LoadedFrom(out.records[2])
    /\ PlantStoreLoad(db.plants, "alias2").found

(***************************************************************************)
(* plant_store.py: the readings table                                      *)
(*                                                                         *)
(* A ts text is [t, fmt]: the instant t written as YYYY-MM-DDTHH:MM:SS     *)
(* (fmt "plain"), with the suffix .000000Z (fmt "micro") or with the       *)
(* suffix Z (fmt "Z"); NoneTs is a missing ts.                             *)
(***************************************************************************)
NoneTs == [t |-> -1, fmt |-> "none"]

TsFormats == <<"plain", "micro", "Z">>

\* the texts of one instant in string order: "" < ".000000Z" < "Z"
FmtRank(fmt) == CHOOSE i \in DOMAIN TsFormats : TsFormats[i] = fmt

\* a <= b as SQLite compares two TEXT values
TextLe(a, b) ==
    \/ a.t < b.t
    \/ a.t = b.t /\ FmtRank(a.fmt) <= FmtRank(b.fmt)

\* INSERT OR REPLACE INTO readings: the row of the key, if any, is replaced
\* mutant: INSERT OR IGNORE, the row of the key is kept
InsertOrIgnoreReading(readings, plant_uid, emig_id, r) ==
    IF \E x \in readings :
          x.plant_uid = plant_uid /\ x.emig_id = emig_id /\ x.ts = r.ts
    THEN readings
    ELSE readings \cup {[plant_uid |-> plant_uid, emig_id |-> emig_id,
                         ts |-> r.ts, payload |-> JsonDumps(r)]}

InsertOrReplaceReading(readings, plant_uid, emig_id, r) ==
    {x \in readings :
        ~(x.plant_uid = plant_uid /\ x.emig_id = emig_id /\ x.ts = r.ts)}
    \cup {[plant_uid |-> plant_uid, emig_id |-> emig_id, ts |-> r.ts,
           payload |-> JsonDumps(r)]}

RECURSIVE ExecuteMany(_, _, _, _)
ExecuteMany(readings, plant_uid, emig_id, rs) ==
    IF rs = <<>> THEN readings
    ELSE ExecuteMany(InsertOrReplaceReading(readings, plant_uid, emig_id, Head(rs)),
                     plant_uid, emig_id, Tail(rs))

\* PlantStore.store_readings: the readings table after the call
store_readings(readings, plant_uid, emig_id, rs) ==
    IF rs = <<>> THEN readings
    ELSE ExecuteMany(readings, plant_uid, emig_id,
                     SelectSeq(rs, LAMBDA r : r.ts # NoneTs))

\* ORDER BY ts
RECURSIVE OrderByTs(_)
OrderByTs(rows) ==
    IF rows = {} THEN <<>>
    ELSE LET first == CHOOSE x \in rows : \A y \in rows : TextLe(x.ts, y.ts)
         IN  <<first>> \o OrderByTs(rows \ {first})

\* PlantStore.load_readings
load_readings(readings, plant_uid, emig_id, start_ts, end_ts) ==
    LET rows == OrderByTs({x \in readings :
                    /\ x.plant_uid = plant_uid
                    /\ x.emig_id = emig_id
                    /\ TextLe(start_ts, x.ts)
                    /\ TextLe(x.ts, end_ts)})
    IN  [i \in DOMAIN rows |-> JsonLoads(rows[i].payload)]

(***************************************************************************)
(* SpecReadings: store_readings and load_readings called in any order      *)
(***************************************************************************)
MaxReadings == 2

\* (plant_uid, emig_id)
Devices == {<<"ERS:00001", "INV:1">>, <<"ERS:00001", "INV:2">>,
            <<"ERS:00002", "INV:1">>}

StoredTs == {[t |-> 1, fmt |-> "plain"], [t |-> 2, fmt |-> "plain"]}

DatedReadings ==
    {[ts |-> [t |-> 1, fmt |-> "plain"], energy |-> 1],
     [ts |-> [t |-> 2, fmt |-> "plain"], energy |-> 1],
     [ts |-> [t |-> 2, fmt |-> "plain"], energy |-> 2]}

UndatedReading == [ts |-> NoneTs, energy |-> 1]

\* the batches given to store_readings: up to MaxReadings readings, an
\* undated one, if any, in front
ReadingBatches ==
    LET dated(n) == UNION {[1..k -> DatedReadings] : k \in 0..n}
    IN  dated(MaxReadings)
        \cup {<<UndatedReading>> \o rs : rs \in dated(MaxReadings - 1)}

NoStoreCall ==
    [call |-> "", plant_uid |-> NoneStr, emig_id |-> NoneStr, readings |-> <<>>,
     start_ts |-> NoneTs, end_ts |-> NoneTs, result |-> <<>>]

InitReadings ==
    /\ pc = "idle"
    /\ cfg = [entry |-> "PlantStore"]
    /\ df = None
    /\ clean_df = None
    /\ l_df = None
    /\ l_clean = None
    /\ heap = <<>>
    /\ out = NoStoreCall
    /\ db = EmptyDb

StoreReadings ==
    \E dev \in Devices,
       rs \in ReadingBatches :
        /\ db' = [db EXCEPT !.readings = store_readings(@, dev[1], dev[2], rs)]
        /\ out' = [NoStoreCall EXCEPT !.call = "store_readings",
                      !.plant_uid = dev[1], !.emig_id = dev[2], !.readings = rs]
        /\ UNCHANGED <<pc, cfg, df, clean_df, l_df, l_clean, heap>>

LoadReadings ==
    \E dev \in Devices, start_ts \in StoredTs, end_ts \in StoredTs :
        /\ out' = [NoStoreCall EXCEPT !.call = "load_readings",
                      !.plant_uid = dev[1], !.emig_id = dev[2],
                      !.start_ts = start_ts, !.end_ts = end_ts,
                      !.result = load_readings(db.readings, dev[1], dev[2],
                                               start_ts, end_ts)]
        /\ UNCHANGED <<pc, db, cfg, df, clean_df, l_df, l_clean, heap>>

NextReadings == StoreReadings \/ LoadReadings

SpecReadings == InitReadings /\ [][NextReadings]_vars

(***************************************************************************)
(* Claims about the readings table (SpecReadings)                          *)
(***************************************************************************)
ReadingKey(x) == <<x.plant_uid, x.emig_id, x.ts>>

OnePayloadPerKey ==
    \A x, y \in db.readings : ReadingKey(x) = ReadingKey(y) => x = y

\* the payload the table holds for a key, as a set (empty: no row)
PayloadsAt(readings, key) ==
    {JsonLoads(x.payload) : x \in {y \in readings : ReadingKey(y) = key}}

\* the last reading of a batch with the given ts
LastReadingAt(rs, ts) ==
    rs[CHOOSE i \in DOMAIN rs :
          rs[i].ts = ts /\ \A j \in DOMAIN rs : rs[j].ts = ts => j <= i]

StoreStep ==
    out'.call = "store_readings" =>
        \A dev \in Devices, ts \in StoredTs \cup {NoneTs} :
            PayloadsAt(db'.readings, <<dev[1], dev[2], ts>>)
              = IF /\ dev = <<out'.plant_uid, out'.emig_id>>
                   /\ ts # NoneTs
                   /\ \E i \in DOMAIN out'.readings : out'.readings[i].ts = ts
                THEN {LastReadingAt(out'.readings, ts)}
                ELSE PayloadsAt(db.readings, <<dev[1], dev[2], ts>>)

LoadedExactly ==
    out.call = "load_readings" =>
        /\ {out.result[i] : i \in DOMAIN out.result}
              = UNION {PayloadsAt(db.readings, <<out.plant_uid, out.emig_id, ts>>) :
                         ts \in {s \in StoredTs :
                                    /\ out.start_ts.t <= s.t
                                    /\ s.t <= out.end_ts.t}}
        /\ \A i, j \in DOMAIN out.result :
              i < j => out.result[i].ts.t < out.result[j].ts.t

\* C19: the readings table holds one payload per (plant_uid, emig_id, ts); a
\* store_readings call replaces the payload of the keys it gives (the last
\* reading of the batch wins), skips the readings without ts and leaves every
\* other key as it was; load_readings returns exactly the payloads of the
\* device with start_ts <= ts <= end_ts, in ascending ts order.
C19_ReadingsKeyedByTs ==
    /\ [](pc = "idle" => OnePayloadPerKey /\ LoadedExactly)
    /\ [][pc = "idle" => StoreStep]_vars

\* a load of one device over both instants while another device and another
\* plant hold readings as well
C19_Witness ==
    /\ out.call = "load_readings"
    /\ out.plant_uid = "ERS:00001"
    /\ out.emig_id = "INV:1"
    /\ Len(out.result) = 2
    /\ out.result[2].energy = 2
    /\ \E x \in db.readings : x.emig_id = "INV:2"
    /\ \E x \in db.readings : x.plant_uid = "ERS:00002"

(***************************************************************************)
(* upload_data.py: upload_csv_to_db                                        *)
(***************************************************************************)
\* the empty string
EmptyTs == [t |-> -1, fmt |-> ""]

\* normalize_timestamp: .000000Z and Z are removed, the rest is reformatted
\* as %Y-%m-%dT%H:%M:%S
normalize_timestamp(ts) ==
    IF ts = EmptyTs THEN EmptyTs
    ELSE LET stripped == IF ts.fmt \in {"micro", "Z"} THEN "plain" ELSE ts.fmt
         IN  [t |-> ts.t, fmt |-> stripped]

\* end_ts + "Z" for a normalized end_ts
AppendZ(ts) == [t |-> ts.t, fmt |-> "Z"]

\* sorted(timestamps)[0] and sorted(timestamps)[-1]
FirstSorted(timestamps) ==
    CHOOSE a \in timestamps : \A b \in timestamps : TextLe(a, b)

LastSorted(timestamps) ==
    CHOOSE a \in timestamps : \A b \in timestamps : TextLe(b, a)

check_existing_records(readings, plant_uid, emig_id, timestamps) ==
    IF timestamps = {} THEN {}
    ELSE LET start_ts == normalize_timestamp(FirstSorted(timestamps))
             end_ts   == normalize_timestamp(LastSorted(timestamps))
             loaded   == load_readings(readings, plant_uid, emig_id,
                                       start_ts, AppendZ(end_ts))
         IN  {normalize_timestamp(loaded[i].ts) : i \in DOMAIN loaded}

\* the rows of one device, in file order
GroupOf(csv, emig_id) == SelectSeq(csv, LAMBDA row : row.emigId = emig_id)

\* reading = row.to_dict() with reading["ts"] = normalized_ts
ReadingOf(row) == [row EXCEPT !.ts = normalize_timestamp(row.ts)]

\* one pass of the loop over df.groupby("emigId"): [readings, new, dup]
UploadGroup(st, plant_uid, group, emig_id, check_duplicates) ==
    LET timestamps  == {group[i].ts : i \in DOMAIN group}
        existing_ts ==
            IF check_duplicates
            THEN check_existing_records(st.readings, plant_uid, emig_id, timestamps)
            ELSE {}
        dated      == SelectSeq(group, LAMBDA row : row.ts # EmptyTs)
        duplicates == SelectSeq(dated,
                        LAMBDA row : normalize_timestamp(row.ts) \in existing_ts)
        fresh      == SelectSeq(dated,
                        LAMBDA row : normalize_timestamp(row.ts) \notin existing_ts)
        readings_to_insert == [i \in DOMAIN fresh |-> ReadingOf(fresh[i])]
    IN  [readings |-> IF readings_to_insert # <<>>
                      THEN store_readings(st.readings, plant_uid, emig_id,
                                          readings_to_insert)
                      ELSE st.readings,
         new |-> st.new + Len(readings_to_insert),
         dup |-> st.dup + Len(duplicates)]

RECURSIVE UploadGroups(_, _, _, _, _)
UploadGroups(st, plant_uid, csv, ids, check_duplicates) ==
    IF ids = <<>> THEN st
    ELSE LET group == GroupOf(csv, Head(ids))
         IN  UploadGroups(IF group = <<>> THEN st
                          ELSE UploadGroup(st, plant_uid, group, Head(ids),
                                           check_duplicates),
                          plant_uid, csv, Tail(ids), check_duplicates)

\* upload_csv_to_db: [readings, new, dup], the table after the call and the
\* tuple returned; groupby iterates the devices in sorted order
upload_csv_to_db(readings, plant_uid, csv, check_duplicates) ==
    IF csv = <<>> THEN [readings |-> readings, new |-> 0, dup |-> 0]
    ELSE UploadGroups([readings |-> readings, new |-> 0, dup |-> 0],
                      plant_uid, csv, <<"INV:1", "INV:2">>, check_duplicates)

(***************************************************************************)
(* SpecUpload: CSV files uploaded one after another into a store that may  *)
(* already hold readings                                                   *)
(***************************************************************************)
MaxCsvRows == 2

UploadPlant == "ERS:00001"

CsvRows ==
    {[emigId |-> "INV:1", ts |-> [t |-> 1, fmt |-> "plain"], value |-> 100],
     [emigId |-> "INV:1", ts |-> [t |-> 1, fmt |-> "Z"],     value |-> 200],
     [emigId |-> "INV:1", ts |-> [t |-> 2, fmt |-> "micro"], value |-> 100],
     [emigId |-> "INV:2", ts |-> [t |-> 1, fmt |-> "plain"], value |-> 100]}

CsvFiles == UNION {[1..k -> CsvRows] : k \in 0..MaxCsvRows}

\* readings stored before the first upload: none, one written by an earlier
\* upload, one written with the Z suffix, one of another plant
StoredBefore ==
    {{},
     {[plant_uid |-> UploadPlant, emig_id |-> "INV:1",
       ts |-> [t |-> 1, fmt |-> "plain"],
       payload |-> JsonDumps([ts |-> [t |-> 1, fmt |-> "plain"], value |-> 7])]},
     {[plant_uid |-> UploadPlant, emig_id |-> "INV:1",
       ts |-> [t |-> 2, fmt |-> "Z"],
       payload |-> JsonDumps([ts |-> [t |-> 2, fmt |-> "Z"], value |-> 7])]},
     {[plant_uid |-> "ERS:00002", emig_id |-> "INV:1",
       ts |-> [t |-> 1, fmt |-> "plain"],
       payload |-> JsonDumps([ts |-> [t |-> 1, fmt |-> "plain"], value |-> 7])]}}

NoUpload ==
    [call |-> "", csv |-> <<>>, check_duplicates |-> TRUE, new |-> 0, dup |-> 0,
     again |-> FALSE]

InitUpload ==
    /\ pc = "idle"
    /\ cfg = [entry |-> "upload_data"]
    /\ df = None
    /\ clean_df = None
    /\ l_df = None
    /\ l_clean = None
    /\ heap = <<>>
    /\ out = NoUpload
    /\ db \in {[EmptyDb EXCEPT !.readings = r] : r \in StoredBefore}

\* out.again: the call before this one uploaded the same file
UploadCsvToDb ==
    \E csv \in CsvFiles, check_duplicates \in BOOLEAN :
        LET res == upload_csv_to_db(db.readings, UploadPlant, csv, check_duplicates)
        IN  /\ db' = [db EXCEPT !.readings = res.readings]
            /\ out' = [call |-> "upload_csv_to_db", csv |-> csv,
                       check_duplicates |-> check_duplicates,
                       new |-> res.new, dup |-> res.dup,
                       again |-> (out.call = "upload_csv_to_db" /\ out.csv = csv)]
            /\ UNCHANGED <<pc, cfg, df, clean_df, l_df, l_clean, heap>>

NextUpload == UploadCsvToDb

SpecUpload == InitUpload /\ [][NextUpload]_vars

(***************************************************************************)
(* Claims about upload_csv_to_db (SpecUpload)                              *)
(***************************************************************************)
\* the normalized timestamps the store holds for a device
StoredNormalized(readings, emig_id) ==
    {normalize_timestamp(x.ts) :
        x \in {y \in readings : y.plant_uid = UploadPlant /\ y.emig_id = emig_id}}

\* the CSV rows whose normalized timestamp the store already holds
AlreadyStored(readings, csv) ==
    {i \in DOMAIN csv :
        normalize_timestamp(csv[i].ts) \in StoredNormalized(readings, csv[i].emigId)}

UploadCounts ==
    /\ out'.dup = Cardinality(AlreadyStored(db.readings, out'.csv))
    /\ out'.new = Cardinality(db'.readings) - Cardinality(db.readings)

ExistingUnchanged == db.readings \subseteq db'.readings

SecondUploadAddsNothing ==
    out'.again => (db'.readings = db.readings /\ out'.new = 0)

\* C20: an upload with check_duplicates = True returns (new, dup) where dup
\* is the number of CSV rows whose normalized timestamp the store already
\* holds for the device and new is the number of readings the call adds to
\* the store; it leaves the readings already stored unchanged; uploading the
\* same CSV again adds nothing and returns new = 0.
C20_UploadSkipsDuplicates ==
    [][(out'.call = "upload_csv_to_db" /\ out'.check_duplicates)
          => (UploadCounts /\ ExistingUnchanged /\ SecondUploadAddsNothing)]_vars

(***************************************************************************)
(* Claims about the binned baseline (SpecBaseline)                         *)
(***************************************************************************)
\* the clean-reference rows with POA >= POA_MIN in the bin of full row i
CleanRowsInBinOf(i) ==
    IF ~HasCol(clean_df, "poa") THEN <<>>
    ELSE SelectSeq(clean_df.rows,
            LAMBDA r : /\ FGe(r["poa"], F(POA_MIN))
                       /\ BinOf(r["poa"]) = BinOf(df.rows[i]["poa"]))

MedianAcOf(rows) == Median([j \in DOMAIN rows |-> rows[j]["ac_power"]])

\* table b holds the rows of the full table once each and in order
KeepsFullRows(b) ==
    /\ Len(b.rows) = Len(df.rows)
    /\ \A i \in DOMAIN df.rows : \A c \in df.cols : b.rows[i][c] = df.rows[i][c]

\* C21: every row of the full series gets as expected_clean_power the median
\* AC power of the clean rows with POA >= POA_MIN in its own floor-aligned
\* bin, NaN when there is none (never a neighbouring bin's value); the
\* returned table holds every row of the full series once, in input order.
C21_ExpectedIsOwnBinMedian ==
    \A k \in DOMAIN out :
        /\ KeepsFullRows(heap[out[k]])
        /\ \A i \in DOMAIN df.rows :
              heap[out[k]].rows[i]["expected_clean_power"]
                = IF CleanRowsInBinOf(i) = <<>> THEN NaN
                  ELSE MedianAcOf(CleanRowsInBinOf(i))

\* a full series with one row in a bin holding two clean rows and one row in
\* the empty bin above it
C21_Witness ==
    /\ Len(out) >= 1
    /\ Len(df.rows) = 2
    /\ Len(CleanRowsInBinOf(1)) = 2
    /\ heap[out[1]].rows[1]["expected_clean_power"] = F(9)
    /\ BinOf(df.rows[2]["poa"]) = BinOf(df.rows[1]["poa"]) + 1
    /\ IsNaN(heap[out[1]].rows[2]["expected_clean_power"])

C23_NoSignalEnergyLossIsNaN ==
    (pc = "returned" /\ NoBinOverlap /\ df.rows # <<>>) =>
        IsNaN(out.energy_loss_kwh_per_day)

(***************************************************************************)
(* SpecDetect: step 10 of run_fouling_analysis, detect_cleaning_events on  *)
(* the table the earlier steps left                                        *)
(***************************************************************************)
MaxRowsDetect == 4

\* PR cells: a night row without PR and three daytime levels
DetectPrVals == {NaN, Num(38, 100), Num(46, 100), Num(80, 100)}

DetectTables ==
    {[cols |-> {"timestamp", "pr"},
      rows |-> [i \in DOMAIN prs |-> [timestamp |-> i, pr |-> prs[i]]]] :
        prs \in UNION {[1..k -> DetectPrVals] : k \in 0..MaxRowsDetect}}

InitDetect ==
    /\ pc = "detect_cleaning_events"
    /\ cfg = [DefaultCfg EXCEPT !.entry = "run_fouling_analysis"]
    /\ df \in DetectTables
    /\ clean_df = None
    /\ l_df = df
    /\ l_clean = None
    /\ heap = <<>>
    /\ out = NoResult
    /\ db = EmptyDb

NextDetect == RfaDetectAndReturn

SpecDetect == InitDetect /\ [][NextDetect]_vars

(***************************************************************************)
(* Claims about detect_cleaning_events (SpecDetect)                        *)
(***************************************************************************)
\* the non-missing PR values of the rows i-2..i of the input
WindowPrs(i) ==
    SelectSeq([k \in 1..(IF i > 2 THEN 3 ELSE i) |->
                  df.rows[(IF i > 2 THEN i - 3 ELSE 0) + k]["pr"]],
              LAMBDA x : ~IsNaN(x))

\* the 3-sample rolling median with min-periods 1
Rolled(i) == IF WindowPrs(i) = <<>> THEN NaN ELSE Median(WindowPrs(i))

GlobalMedianRolled == Median([i \in DOMAIN df.rows |-> Rolled(i)])

JumpsAt(i) ==
    /\ i > 1
    /\ ~IsNaN(Rolled(i))
    /\ ~IsNaN(Rolled(i - 1))
    /\ FGt(FSub(Rolled(i), Rolled(i - 1)),
           FMul(CLEANING_THRESHOLD, GlobalMedianRolled))

\* C24: row i is flagged exactly when rolled[i] - rolled[i-1] exceeds
\* threshold x median(rolled) strictly; the first row and a row whose own or
\* whose predecessor's rolled PR is missing are never flagged; the count
\* returned is the number of flagged rows.
C24_FlaggedIffJump ==
    pc = "returned" =>
        /\ Len(l_df.rows) = Len(df.rows)
        /\ \A i \in DOMAIN df.rows : l_df.rows[i]["cleaning_event"] = JumpsAt(i)
        /\ out.cleaning_events_detected
              = Cardinality({i \in DOMAIN df.rows : JumpsAt(i)})

\* PR 0.38, 0.46, missing, 0.80: rolled is 0.38, 0.42, 0.42, 0.63 and the
\* threshold 0.042; the second row's change 0.04 is not flagged, the fourth
\* row's 0.21 is
C24_Witness ==
    /\ pc = "returned"
    /\ Len(df.rows) = 4
    /\ df.rows[1]["pr"] = Num(38, 100)
    /\ df.rows[2]["pr"] = Num(46, 100)
    /\ IsNaN(df.rows[3]["pr"])
    /\ df.rows[4]["pr"] = Num(80, 100)
    /\ ~l_df.rows[2]["cleaning_event"]
    /\ l_df.rows[4]["cleaning_event"]
    /\ out.cleaning_events_detected = 1

(***************************************************************************)
(* SpecProfile: the shading pipeline on a baseline dataset of two          *)
(* inverters whose slots mix usable and unusable readings                  *)
(***************************************************************************)
MaxRowsJoin == 3

\* (emigId, slot of the day): 10:00 and 10:30 of INV:1, 10:00 of INV:2
ProfiledSlots == {<<"INV:1", 20>>, <<"INV:1", 21>>, <<"INV:2", 20>>}

\* (apparentPower, poaIrradiance): two usable readings, irradiance below the
\* minimum, no power, irradiance missing
JoinReadings ==
    {<<F(280), F(700)>>, <<F(480), F(800)>>, <<F(280), F(50)>>,
     <<F(0), F(700)>>, <<F(280), NaN>>}

\* row i is a reading of day i
JoinTables(rows) ==
    [inv |->
        [cols |-> {"dt", "emigId", "apparentPower", "hour_float"},
         rows |-> [i \in DOMAIN rows |->
                     [dt |-> SLOTS_PER_DAY * (i - 1) + rows[i][1][2],
                      emigId |-> rows[i][1][1],
                      apparentPower |-> rows[i][2][1],
                      hour_float |->
                          HourFloat(SLOTS_PER_DAY * (i - 1) + rows[i][1][2])]]],
     weather |->
        [cols |-> {"dt", "poaIrradiance"},
         rows |-> [i \in DOMAIN rows |->
                     [dt |-> SLOTS_PER_DAY * (i - 1) + rows[i][1][2],
                      poaIrradiance |-> rows[i][2][2]]]]]

\* the test dataset: one usable reading of INV:1 at 10:00
TestSeason == JoinTables(<<<<<<"INV:1", 20>>, <<F(280), F(700)>>>>>>)

InitProfile ==
    /\ pc = "join_summer"
    /\ df \in {JoinTables(rows) :
                 rows \in UNION {[1..k -> ProfiledSlots \X JoinReadings] :
                                   k \in 0..MaxRowsJoin}}
    /\ clean_df = TestSeason
    /\ cfg \in {[DefaultSettings EXCEPT !.min_points_per_hour = n] :
                  n \in {1, 2}}
    /\ l_df = None
    /\ l_clean = None
    /\ heap = <<>>
    /\ out = NoComparison
    /\ db = EmptyDb

SpecProfile == InitProfile /\ [][NextShading]_vars

(***************************************************************************)
(* Claims about the efficiency profile (SpecProfile)                       *)
(***************************************************************************)
\* the baseline profile has been built
Profiled == pc \in {"profile_winter", "compare", "returned", "raised"}

\* the readings of a device at a time of day that count: irradiance present
\* and >= irradiance_min, power > 0
CountedReadings(e, h) ==
    {i \in DOMAIN df.inv.rows :
        /\ df.inv.rows[i]["emigId"] = e
        /\ df.inv.rows[i]["hour_float"] = h
        /\ IsNum(IrradianceAt(df, i))
        /\ FGe(IrradianceAt(df, i), cfg.irradiance_min)
        /\ FGt(df.inv.rows[i]["apparentPower"], F(0))}

MedianEfficiency(e, h) ==
    LET idx == AscendingDates(CountedReadings(e, h))
    IN  Median([k \in DOMAIN idx |-> NormalizedPower(df, idx[k])])

InputSlots ==
    {<<df.inv.rows[i]["emigId"], df.inv.rows[i]["hour_float"]>> :
        i \in DOMAIN df.inv.rows}

ProfileSlotsOf(prof) ==
    {<<prof.rows[i]["emigId"], prof.rows[i]["hour_float"]>> :
        i \in DOMAIN prof.rows}

\* C25: the profile holds a (device, hour-of-day) slot exactly when at least
\* min_points_per_hour joined rows of the slot have irradiance >=
\* irradiance_min and power > 0; the slot's value is the median of
\* power/irradiance over exactly those rows and its count their number.
C25_ProfileOfCountedReadings ==
    Profiled =>
        /\ ProfileSlotsOf(l_df)
              = {s \in InputSlots :
                    Cardinality(CountedReadings(s[1], s[2]))
                        >= cfg.min_points_per_hour}
        /\ \A i, j \in DOMAIN l_df.rows :
              (l_df.rows[i]["emigId"] = l_df.rows[j]["emigId"]
                 /\ l_df.rows[i]["hour_float"] = l_df.rows[j]["hour_float"])
                 => i = j
        /\ \A i \in DOMAIN l_df.rows :
              LET e == l_df.rows[i]["emigId"]
                  h == l_df.rows[i]["hour_float"]
              IN  /\ l_df.rows[i]["I_norm_median"] = MedianEfficiency(e, h)
                  /\ l_df.rows[i]["n_points"] = Cardinality(CountedReadings(e, h))

\* INV:1 at 10:00 holds a reading below the irradiance minimum next to two
\* usable ones with power/irradiance 0.4 and 0.6: the slot is profiled with
\* median 0.5 and count 2 at a threshold of 2
C25_Witness ==
    /\ Profiled
    /\ cfg.min_points_per_hour = 2
    /\ Len(df.inv.rows) = 3
    /\ \A i \in DOMAIN df.inv.rows :
          df.inv.rows[i]["emigId"] = "INV:1" /\ df.inv.rows[i]["hour_float"] = F(10)
    /\ \E i \in DOMAIN df.inv.rows : FLt(IrradianceAt(df, i), cfg.irradiance_min)
    /\ Len(l_df.rows) = 1
    /\ l_df.rows[1]["I_norm_median"] = Num(1, 2)
    /\ l_df.rows[1]["n_points"] = 2

\* C26: a bin that holds a single clean-reference observation is suppressed:
\* the full-series rows of that bin get no expected_clean_power.
C26_SingleSampleBinSuppressed ==
    \A k \in DOMAIN out : \A i \in DOMAIN df.rows :
        Len(CleanRowsInBinOf(i)) = 1 =>
            IsNaN(heap[out[k]].rows[i]["expected_clean_power"])

(***************************************************************************)
(* SpecAdditive: run_fouling_analysis on full tables that may lack an      *)
(* irradiance reading, with and without the regression library             *)
(***************************************************************************)
MaxRowsAdditive == 2

AdditivePoaVals == {F(250), F(350), NaN}

InitAdditive ==
    /\ pc = "run_fouling_analysis"
    /\ cfg \in RfaCfgs
    /\ df \in SeriesUpTo(FullAcVals, AdditivePoaVals, MaxRowsAdditive)
    /\ clean_df \in
          {SeriesOf("dense", cells) :
              cells \in UNION {[1..k -> CleanAcVals \X CleanPoaVals] :
                                 k \in 0..MaxRowsClean}}
    /\ l_df = None
    /\ l_clean = None
    /\ heap = <<>>
    /\ out = NoResult
    /\ db = EmptyDb

SpecAdditive == InitAdditive /\ [][NextRfa]_vars

\* what the call returns when no regression model is fitted
WithoutModel ==
    run_fouling_analysis(df, clean_df, [cfg EXCEPT !.has_sklearn = FALSE])

ModelAvailable ==
    fit_clean_regression_model(PrepareClean(clean_df, cfg), cfg).fitted

\* C27: for the same full and clean tables the call returns the same
\* expected_clean_power values, fouling_index, fouling_level and
\* energy_loss_kwh_per_day whether or not a regression model is fitted, and
\* without a model expected_clean_model is NaN on every row.
C27_RegressionIsAdditive ==
    (pc \in {"returned", "raised"} /\ ~CleanMissing(clean_df)) =>
        /\ pc = "returned"
        /\ Column(l_df, "expected_clean_power")
              = Column(WithoutModel.df, "expected_clean_power")
        /\ out.fouling_index = WithoutModel.fouling_index
        /\ out.fouling_level = WithoutModel.fouling_level
        /\ out.energy_loss_kwh_per_day = WithoutModel.energy_loss_kwh_per_day
        /\ ~ModelAvailable =>
              \A i \in DOMAIN l_df.rows : IsNaN(l_df.rows[i]["expected_clean_model"])

(***************************************************************************)
(* fetch_inverter_data.py: fetch_all_readings                              *)
(*                                                                         *)
(* A date is its day number; the API answers a request for [start, end]    *)
(* with one reading per day of the range, or with an HTTP error.           *)
(***************************************************************************)
HALF_HOURLY_S == 1800

HOURLY_S == 3600

MAX_DAYS_HALF_HOURLY == 104

MAX_DAYS_HOURLY == 208

MAX_DAYS_DAILY == 5000

MaxDaysFor(min_interval_s) ==
    IF min_interval_s <= HALF_HOURLY_S THEN MAX_DAYS_HALF_HOURLY
    ELSE IF min_interval_s <= HOURLY_S THEN MAX_DAYS_HOURLY
    ELSE MAX_DAYS_DAILY

\* mutant: the segment runs max_days days past its first day
SegmentEndPastLimit(current_start, max_days, end_dt) ==
    LET current_end == current_start + max_days
    IN  IF current_end > end_dt THEN end_dt ELSE current_end

\* current_end = current_start + timedelta(days=max_days - 1), capped at end_dt
SegmentEnd(current_start, max_days, end_dt) ==
    LET current_end == current_start + (max_days - 1)
    IN  IF current_end > end_dt THEN end_dt ELSE current_end

\* fetch_readings_for_period on a request that succeeds
SegmentReadings(start, end) == [i \in 1..(end - start + 1) |-> [day |-> start + i - 1]]

(***************************************************************************)
(* SpecFetch: one call of fetch_all_readings; l_df holds the locals of the *)
(* loop, out the requests made and the readings collected                  *)
(***************************************************************************)
FetchStartDates == {0, 3}

FetchEndDates == {0, 2, 3, 103, 104, 106, 107, 210, 211, 320, 5002, 5003}

FetchIntervals == {900, HALF_HOURLY_S, HOURLY_S, 86400}

NoFetch == [raised |-> "", requests |-> <<>>, readings |-> <<>>]

InitFetch ==
    /\ pc = "fetch_all_readings"
    /\ cfg \in [entry : {"fetch_all_readings"}, start_date : FetchStartDates,
                end_date : FetchEndDates, min_interval_s : FetchIntervals]
    /\ df = None
    /\ clean_df = None
    /\ l_df = [current_start |-> cfg.start_date,
               max_days |-> MaxDaysFor(cfg.min_interval_s)]
    /\ l_clean = None
    /\ heap = <<>>
    /\ out = NoFetch
    /\ db = EmptyDb

\* one pass of the while loop: the request succeeds or raises HTTPError
FetchSegment ==
    /\ pc = "fetch_all_readings"
    /\ l_df.current_start <= cfg.end_date
    /\ LET current_end == SegmentEnd(l_df.current_start, l_df.max_days, cfg.end_date)
       IN  \/ /\ out' = [out EXCEPT
                           !.requests = Append(@, <<l_df.current_start, current_end>>),
                           !.readings = @ \o SegmentReadings(l_df.current_start,
                                                             current_end)]
              /\ l_df' = [l_df EXCEPT !.current_start = current_end + 1]
              /\ pc' = pc
           \/ /\ out' = [out EXCEPT
                           !.requests = Append(@, <<l_df.current_start, current_end>>),
                           !.raised = "HTTPError"]
              /\ l_df' = l_df
              /\ pc' = "raised"
    /\ UNCHANGED <<db, cfg, df, clean_df, l_clean, heap>>

\* the loop condition fails: return readings
FetchReturn ==
    /\ pc = "fetch_all_readings"
    /\ l_df.current_start > cfg.end_date
    /\ pc' = "returned"
    /\ UNCHANGED <<db, cfg, df, clean_df, l_df, l_clean, heap, out>>

NextFetch == FetchSegment \/ FetchReturn

SpecFetch == InitFetch /\ [][NextFetch]_vars /\ WF_vars(NextFetch)

(***************************************************************************)
(* Claims about fetch_all_readings (SpecFetch)                             *)
(***************************************************************************)
\* the segments requested so far start at start_date, are non-empty, at most
\* max_days long, inside the range, and each starts the day after the
\* previous one ends
SegmentsWellFormed ==
    \A i \in DOMAIN out.requests :
        LET seg == out.requests[i]
        IN  /\ seg[1] <= seg[2]
            /\ seg[2] - seg[1] + 1 <= MaxDaysFor(cfg.min_interval_s)
            /\ cfg.start_date <= seg[1] /\ seg[2] <= cfg.end_date
            /\ seg[1] = IF i = 1 THEN cfg.start_date
                        ELSE out.requests[i - 1][2] + 1

\* on return the segments cover the range and the readings are those of the
\* whole range in date order
RangeCovered ==
    pc = "returned" =>
        /\ cfg.start_date > cfg.end_date => out.requests = <<>>
        /\ cfg.start_date <= cfg.end_date =>
              out.requests[Len(out.requests)][2] = cfg.end_date
        /\ out.readings = SegmentReadings(cfg.start_date, cfg.end_date)

\* C28: the requests are consecutive, disjoint, contiguous segments of at
\* most max_days days whose union is [start_date, end_date]; the loop ends
\* after finitely many requests, makes none when start_date is after
\* end_date, and returns the readings of the segments in date order.
C28_SegmentsPartitionRange ==
    /\ [](SegmentsWellFormed /\ RangeCovered)
    /\ <>(pc \in {"returned", "raised"})

\* 321 days at half-hourly resolution: four requests, the last one shorter
C28_Witness ==
    /\ pc = "returned"
    /\ cfg.min_interval_s = HALF_HOURLY_S
    /\ out.requests = <<<<0, 103>>, <<104, 207>>, <<208, 311>>, <<312, 320>>>>
    /\ Len(out.readings) = 321

(***************************************************************************)
(* inverter_pipeline.py: run_fetch and the fetch cache                     *)
(***************************************************************************)
\* PlantStore.has_fetch
has_fetch(fetch_cache, plant_uid, emig_id, start_date, end_date) ==
    [plant_uid |-> plant_uid, emig_id |-> emig_id, start_date |-> start_date,
     end_date |-> end_date] \in fetch_cache

\* PlantStore.record_fetch: INSERT OR IGNORE INTO fetch_cache
record_fetch(fetch_cache, plant_uid, emig_id, start_date, end_date) ==
    fetch_cache \cup {[plant_uid |-> plant_uid, emig_id |-> emig_id,
                       start_date |-> start_date, end_date |-> end_date]}

\* fetch_all_readings on success, each record with rec["emigId"] = emig_id
FetchedReadings(emig_id, start_date, end_date) ==
    [i \in 1..(end_date - start_date + 1) |->
        [ts |-> [t |-> start_date + i - 1, fmt |-> "plain"], emigId |-> emig_id]]

\* one device of run_fetch; outcome says how the fetch and the store step
\* end; an exception of the store step is caught for the weather device
\* only and otherwise leaves run_fetch
FetchDevice(st, plant_uid, emig_id, c, outcome, is_weather) ==
    IF ~c.force_download
          /\ has_fetch(st.fetch_cache, plant_uid, emig_id, c.start_date, c.end_date)
    THEN st
    ELSE IF outcome = "http_error" THEN st
    ELSE LET recorded == [st EXCEPT !.fetch_cache =
                 record_fetch(@, plant_uid, emig_id, c.start_date, c.end_date)]
         IN  IF outcome = "store_error"
             THEN [recorded EXCEPT !.raised = ~is_weather]
             ELSE [recorded EXCEPT !.readings =
                     store_readings(@, plant_uid, emig_id,
                         FetchedReadings(emig_id, c.start_date, c.end_date))]

\* for emig_id in inverter_ids
RECURSIVE FetchInverters(_, _, _, _, _)
FetchInverters(st, plant_uid, inverter_ids, c, outcomes) ==
    IF inverter_ids = <<>> \/ st.raised THEN st
    ELSE FetchInverters(
             FetchDevice(st, plant_uid, Head(inverter_ids), c,
                         outcomes[Head(inverter_ids)], FALSE),
             plant_uid, Tail(inverter_ids), c, outcomes)

\* run_fetch from the weather block on: the tables after the run
run_fetch(d, plant_uid, weather_id, inverter_ids, c, outcomes) ==
    LET st0 == [fetch_cache |-> d.fetch_cache, readings |-> d.readings,
                raised |-> FALSE]
        st1 == IF c.include_weather
               THEN [FetchDevice(st0, plant_uid, weather_id, c,
                                 outcomes[weather_id], TRUE)
                        EXCEPT !.raised = FALSE]
               ELSE st0
    IN  FetchInverters(st1, plant_uid, inverter_ids, c, outcomes)

\* emig_id LIKE pattern for the patterns 'POA:%', 'WETH:%', 'INV:%'
LikePrefix(emig_id, pattern) ==
    \E kind \in {"INV:", "WETH:", "POA:"}, n \in {"1", "2"} :
        pattern = kind \o "%" /\ emig_id = kind \o n

(***************************************************************************)
(* SpecCache: run_fetch runs and deletions of readings on one store        *)
(***************************************************************************)
CachePlant == "ERS:00001"

CacheWeatherId == "WETH:1"

CacheInverterIds == <<"INV:1">>

\* (start_date, end_date)
CacheRanges == {<<1, 1>>, <<1, 2>>}

FetchOutcomes == {"ok", "http_error", "store_error"}

InitCache ==
    /\ pc = "idle"
    /\ cfg = [entry |-> "run_fetch"]
    /\ df = None
    /\ clean_df = None
    /\ l_df = None
    /\ l_clean = None
    /\ heap = <<>>
    /\ out = [call |-> "", raised |-> FALSE]
    /\ db = EmptyDb

RunFetch ==
    \E range \in CacheRanges, force_download \in BOOLEAN,
       include_weather \in BOOLEAN,
       outcomes \in [{CacheWeatherId, "INV:1"} -> FetchOutcomes] :
        LET c == [start_date |-> range[1], end_date |-> range[2],
                  force_download |-> force_download,
                  include_weather |-> include_weather]
            st == run_fetch(db, CachePlant, CacheWeatherId, CacheInverterIds,
                            c, outcomes)
        IN  /\ db' = [db EXCEPT !.fetch_cache = st.fetch_cache,
                                !.readings = st.readings]
            /\ out' = [call |-> "run_fetch", raised |-> st.raised]
            /\ UNCHANGED <<pc, cfg, df, clean_df, l_df, l_clean, heap>>

DeleteDeviceReadings ==
    \E emig_id \in {CacheWeatherId, "INV:1"} :
        /\ db' = [db EXCEPT !.readings =
                    {x \in @ : ~(x.plant_uid = CachePlant /\ x.emig_id = emig_id)}]
        /\ out' = [call |-> "delete_device_readings", raised |-> FALSE]
        /\ UNCHANGED <<pc, cfg, df, clean_df, l_df, l_clean, heap>>

DeleteDevicesByPattern ==
    \E pattern \in {"POA:%", "WETH:%"} :
        /\ db' = [db EXCEPT !.readings =
                    {x \in @ : ~(x.plant_uid = CachePlant
                                  /\ LikePrefix(x.emig_id, pattern))}]
        /\ out' = [call |-> "delete_devices_by_pattern", raised |-> FALSE]
        /\ UNCHANGED <<pc, cfg, df, clean_df, l_df, l_clean, heap>>

NextCache == RunFetch \/ DeleteDeviceReadings \/ DeleteDevicesByPattern

SpecCache == InitCache /\ [][NextCache]_vars

(***************************************************************************)
(* Claims about the fetch cache (SpecCache)                                *)
(***************************************************************************)
\* the readings table holds a row for every day of the cached range
RangeStored(c) ==
    \A t \in c.start_date..c.end_date :
        \E x \in db.readings :
            /\ x.plant_uid = c.plant_uid
            /\ x.emig_id = c.emig_id
            /\ x.ts.t = t

\* C29: an entry of fetch_cache for (plant_uid, device, start_date,
\* end_date) implies that the readings of that fetch are in the readings
\* table, after any sequence of run_fetch runs and deletions.
C29_CachedImpliesStored ==
    \A c \in db.fetch_cache : RangeStored(c)


(***************************************************************************)
(* SpecDefaults: auto_select_clean_period called with its default          *)
(* arguments on whole days of 30-minute readings                           *)
(***************************************************************************)
DEFAULT_DAYS == 3

DEFAULT_MIN_POINTS == 48

MaxDaysDefaults == 2

\* a day is a number of readings and what its first reading (midnight) is
\* like: 47 readings miss the last slot of the day, 49 repeat it
DayShapes == {47, 48, 49} \X {"daylight", "low_poa", "no_pr"}

DayReading(d, shape, k) ==
    [timestamp |-> SLOTS_PER_DAY * d
                      + (IF k < SLOTS_PER_DAY THEN k - 1 ELSE SLOTS_PER_DAY - 1),
     ac_power |-> IF shape[2] = "no_pr" /\ k = 1 THEN NaN ELSE F(80 + 5 * d),
     poa |-> IF shape[2] = "low_poa" /\ k = 1 THEN F(150) ELSE F(1000)]

RECURSIVE DaysReadings(_, _)
DaysReadings(shapes, d) ==
    IF d \notin DOMAIN shapes THEN <<>>
    ELSE [k \in 1..shapes[d][1] |-> DayReading(d, shapes[d], k)]
         \o DaysReadings(shapes, d + 1)

InitDefaults ==
    /\ pc = "auto_select_clean_period"
    /\ df \in {[cols |-> {"timestamp", "ac_power", "poa"},
                rows |-> DaysReadings(shapes, 0)] :
                  shapes \in [0..(MaxDaysDefaults - 1) -> DayShapes]}
    /\ cfg = [entry |-> "auto_select_clean_period", dc_size_kw |-> F(100),
              days |-> DEFAULT_DAYS, min_points_per_day |-> DEFAULT_MIN_POINTS]
    /\ clean_df = None
    /\ l_df = None
    /\ l_clean = None
    /\ heap = <<>>
    /\ out = NoSelection
    /\ db = EmptyDb

SpecDefaults == InitDefaults /\ [][NextSelect]_vars

(***************************************************************************)
(* Claims about the default point threshold (SpecDefaults)                 *)
(***************************************************************************)
ReadingsOn(d) == {i \in DOMAIN df.rows : DateOfRow(df, i) = d}

DatesOf(t) == {DateOfRow(t, i) : i \in DOMAIN t.rows}

AtMostFullDay(d) == Cardinality(ReadingsOn(d)) <= SLOTS_PER_DAY

\* C30: the count held against min_points_per_day is the number of the day's
\* rows with POA at or above POA_MIN and a PR; so under the default threshold
\* of 48 a day with at most 48 readings is selected only if every one of its
\* readings has POA at or above POA_MIN, and such a day with a reading below
\* POA_MIN is never selected.
C30_DefaultThresholdNeedsFullDaylight ==
    Selected =>
        /\ \A i \in DOMAIN out.top.rows :
              out.top.rows[i].count = PointCount(out.top.rows[i].date_only)
        /\ Cardinality(DatesOf(df)) <= cfg.days
              => SelectedDates
                    = {d \in DatesOf(df) : PointCount(d) >= cfg.min_points_per_day}
        /\ \A d \in DatesOf(df) :
              (AtMostFullDay(d) /\ d \in SelectedDates)
                  => \A i \in ReadingsOn(d) : FGe(df.rows[i]["poa"], F(POA_MIN))
        /\ \A d \in DatesOf(df) :
              (/\ AtMostFullDay(d)
               /\ \E i \in ReadingsOn(d) : FLt(df.rows[i]["poa"], F(POA_MIN)))
                  => d \notin SelectedDates

\* the first day has 48 readings in daylight and is selected; the second has
\* 48 readings, the one at midnight below POA_MIN, and is not
C30_Witness ==
    /\ Selected
    /\ cfg.min_points_per_day = DEFAULT_MIN_POINTS
    /\ Cardinality(ReadingsOn(0)) = SLOTS_PER_DAY
    /\ Cardinality(ReadingsOn(1)) = SLOTS_PER_DAY
    /\ PointCount(1) = SLOTS_PER_DAY - 1
    /\ \E i \in ReadingsOn(1) : FLt(df.rows[i]["poa"], F(POA_MIN))
    /\ SelectedDates = {0}

====
